---- MODULE Spec2Model ----
(***************************************************************************)
(* A model of FPCBot (src/fpc.py): vote counting on nomination pages, the  *)
(* closing of finished nominations and the six-step parking of verified    *)
(* ones, over an in-memory document store.                                 *)
(*                                                                         *)
(* Text is modelled one level above characters.  A string that the code    *)
(* turns into a regular expression (a file name, a page title) is a        *)
(* sequence of characters, so that wikipattern and the regular expression  *)
(* engine see the same metacharacters as in the program.  A document is a  *)
(* sequence of lines; a line of a nomination page is a sequence of items   *)
(* (templates, image links, headings), a line of any other page is one     *)
(* record.  Runs of identical vote templates are run-length encoded.       *)
(* Result templates always carry the trailing sig parameter the bot writes.*)
(***************************************************************************)
EXTENDS Integers, Sequences, FiniteSets, TLC

VARIABLES
  docs,      \* the document store: page key -> [exists, text]
  G_Dry,     \* -dry
  G_Auto,    \* -auto
  G_Threads, \* -threads
  G_Abort,   \* set by the SIGINT handler
  run,       \* main and checkCandidates: arguments, listings, progress
  daysOld,   \* whole days since the nomination page was created
  sinceEdit, \* whole days since the nomination page was last edited
  obj,       \* the Candidate object being processed (memoized fields)
  pc,        \* position of the run inside park / the batch
  puts,      \* number of page.put calls made so far
  ret,       \* what the last operation returned / did
  inp,       \* the inputs drawn for this run
  docs0,     \* the store before the run
  calls,     \* per parking step: how often it has been invoked
  snap,      \* per parking step: its target document after the first call
  crashes    \* number of interruptions so far

vars == <<docs, G_Dry, G_Auto, G_Threads, G_Abort, run, daysOld, sinceEdit,
          obj, pc, puts, ret, inp, docs0, calls, snap, crashes>>

\* a run of one operation on one candidate, without the batch driver
NoBatch == G_Threads = FALSE /\ G_Abort = FALSE /\ run = [op |-> "none"]

(***************************************************************************)
(* Bounds of the model                                                     *)
(***************************************************************************)
MaxVotes   == 10   \* vote templates of one kind on a page: 0..MaxVotes
MaxDays    == 10   \* ages range over 0..MaxDays
MaxCrashes == 2    \* interruptions of park per run
MaxLimit == 3      \* largest config.max_external_links drawn
MaxText == 5       \* longest text drawn for vote counting, in tokens
MaxImages == 3     \* most image links drawn on a nomination page
MaxEdits == 2      \* edits of a nomination page while the bot holds its candidate
MaxTally == 2      \* most votes of a kind on the pages drawn for memoization
MaxGallery == 5     \* most entries drawn for a gallery of the list page
MaxCalls   == 3    \* invocations of one operation per run

(***************************************************************************)
(* Program constants                                                       *)
(***************************************************************************)
PassQuorum   == 7    \* isPassed: self._pro >= 7
DoneDays     == 9    \* isDone: daysOld() >= 9
FifthDay     == 5    \* rulesOfFifthDay: daysOld() < 5
FifthDayPro  == 10   \* rulesOfFifthDay: self._pro >= 10
SmallImagePx == 150  \* imageCount: int(s.group(1)) <= 150

(***************************************************************************)
(* Sequences                                                               *)
(***************************************************************************)
Last(s) == s[Len(s)]

RECURSIVE Flatten(_)
Flatten(ss) == IF ss = <<>> THEN <<>> ELSE Head(ss) \o Flatten(Tail(ss))

(***************************************************************************)
(* Regular expressions over character sequences.  The fragment is the one  *)
(* that wikipattern produces from a title: literals, '.', the class [ _],  *)
(* escaped characters, and the quantifiers + and ? that an unescaped '+'   *)
(* or '?' of the title becomes.                                            *)
(***************************************************************************)

\* wikipattern(s), fpc.py 925-933: ' ' and '_' become [ _]; ( ) * are escaped
wikipattern(s) ==
  [i \in 1..Len(s) |->
     CASE s[i] \in {" ", "_"} -> "[ _]"
       [] s[i] = "(" -> "\\("
       [] s[i] = ")" -> "\\)"
       [] s[i] = "*" -> "\\*"
       [] OTHER -> s[i]]

RECURSIVE RegexCompile(_, _)
\* re.compile of a pattern source: the atoms with their quantifiers
RegexCompile(src, acc) ==
  IF src = <<>> THEN acc
  ELSE LET h == Head(src) IN
       IF h \in {"+", "?"} /\ acc # <<>>
       THEN RegexCompile(Tail(src), [acc EXCEPT ![Len(acc)].q = h])
       ELSE RegexCompile(Tail(src),
              Append(acc,
                [k |-> CASE h = "." -> "any"
                         [] h = "[ _]" -> "sp"
                         [] OTHER -> "lit",
                 c |-> CASE h = "\\(" -> "("
                         [] h = "\\)" -> ")"
                         [] h = "\\*" -> "*"
                         [] OTHER -> h,
                 q |-> "1"]))

AtomMatches(a, ch) ==
  CASE a.k = "any" -> TRUE          \* lines hold no newline
    [] a.k = "sp"  -> ch \in {" ", "_"}
    [] OTHER       -> ch = a.c

RECURSIVE RegexMatchAt(_, _, _, _)
\* the atoms from i on match a prefix of s[j..]
RegexMatchAt(atoms, i, s, j) ==
  IF i > Len(atoms) THEN TRUE
  ELSE LET a   == atoms[i]
           one == j <= Len(s) /\ AtomMatches(a, s[j])
       IN CASE a.q = "1" -> one /\ RegexMatchAt(atoms, i + 1, s, j + 1)
            [] a.q = "?" -> \/ (one /\ RegexMatchAt(atoms, i + 1, s, j + 1))
                            \/ RegexMatchAt(atoms, i + 1, s, j)
            [] a.q = "+" -> one /\ (\/ RegexMatchAt(atoms, i, s, j + 1)
                                    \/ RegexMatchAt(atoms, i + 1, s, j + 1))

\* re.search(pattern, s) for one line s
RegexSearch(src, s) ==
  LET atoms == RegexCompile(src, <<>>)
  IN \E j \in 1..(Len(s) + 1) : RegexMatchAt(atoms, 1, s, j)

(***************************************************************************)
(* Titles and page keys                                                    *)
(***************************************************************************)
candPrefix == <<"Commons:Featured picture candidates/">>

\* "File:<name>.jpg"
FileOf(name) == <<"File:">> \o name \o <<".", "jpg">>

\* the nomination page's title for a nominated file
TitleOf(fn) == candPrefix \o fn

\* cleanTitle(), fpc.py 451-462: the title without prefix and extension
cleanTitle(title) ==
  LET noprefix == SubSeq(title, 3, Len(title))   \* PrefixR eats "...File:"
  IN SubSeq(noprefix, 1, Len(noprefix) - 2)      \* and \.\w{1,3}$ the extension

ListPage     == <<"Commons:Featured pictures, list">>
MonthPage    == <<"Commons:Featured_pictures/chronological/current_month">>
LogPage      == <<"Commons:Featured picture candidates/Log/", "current month">>
FpcListPage  == <<"Commons:Featured picture candidates/candidate list">>
DelistPage   == <<"Commons:Featured picture candidates/removal">>
CatPage(category) == <<"Commons:Featured pictures/">> \o category
TalkPage(user)    == <<"User_talk:", user>>

NoDoc == [exists |-> FALSE, text |-> <<>>]
Doc(text) == [exists |-> TRUE, text |-> text]

Exists(d, key) == key \in DOMAIN d /\ d[key].exists

(***************************************************************************)
(* Lines of the listing pages, rendered to characters for searching        *)
(***************************************************************************)
RenderLine(l) ==
  CASE l.t = "sec"    -> <<"==", l.cat, "==">>
    [] l.t = "gopen"  -> <<"<gallery>">>
    [] l.t = "gclose" -> <<"</gallery>">>
    [] l.t = "entry"  -> IF l.cap = <<>> THEN l.fn ELSE l.fn \o <<"|">> \o l.cap
    [] l.t = "link"   -> <<"[[">> \o l.fn \o <<"|thumb|627px|left|">> \o l.cap \o <<"]]">>
    [] l.t = "incl"   -> <<"{{">> \o l.title \o <<"}}">>
    [] l.t = "fpp"    -> <<"{{FPpromotion|">> \o l.fn \o
                         (IF l.sub = <<>> THEN <<>> ELSE <<"|subpage=">> \o l.sub)
                         \o <<"}}">>
    [] OTHER          -> <<>>

\* re.search(pattern, text) for a pattern that cannot match across lines
TextSearch(src, text) ==
  \E i \in 1..Len(text) : RegexSearch(src, RenderLine(text[i]))

(***************************************************************************)
(* Nomination pages.  A line is a sequence of items:                       *)
(*   [t |-> "head", suf]            === ... ===, suf the appended statuses *)
(*   [t |-> "img", fn, thumb, px]   [[File:..|thumb|NNNpx]] (px 0: no size)*)
(*   [t |-> "vote", v, n]           n templates of vote kind v             *)
(*   [t |-> "withdraw"], [t |-> "fpx"], [t |-> "ignore"]                   *)
(*   [t |-> "counted", kind, ...]   {{FPC-results-ready-for-review|..}}    *)
(*   [t |-> "verified", kind, featured, category, alternative]             *)
(*   [t |-> "so"], "sc", "no", "nc", "co", "cc", "ino", "inc"              *)
(*                                  <s> </s> <nowiki> </nowiki> <!-- -->   *)
(*                                  {{ImageNote|..}} {{ImageNoteEnd}}      *)
(*   [t |-> "nl"]                   the line break, in flattened text      *)
(***************************************************************************)
NL == [t |-> "nl"]

RECURSIVE FlatText(_)
\* the page text as one sequence of items, lines joined by line breaks
FlatText(text) ==
  IF text = <<>> THEN <<>>
  ELSE IF Len(text) = 1 THEN text[1]
  ELSE text[1] \o <<NL>> \o FlatText(Tail(text))

\* index of the first item of type ty at or after from, 0 if none
FirstOf(s, ty, from) ==
  LET hits == {i \in from..Len(s) : s[i].t = ty}
  IN IF hits = {} THEN 0 ELSE CHOOSE i \in hits : \A k \in hits : i <= k

\* index of the last item of type ty at or after from, 0 if none
LastOf(s, ty, from) ==
  LET hits == {i \in from..Len(s) : s[i].t = ty}
  IN IF hits = {} THEN 0 ELSE CHOOSE i \in hits : \A k \in hits : i >= k

RECURSIVE StripLazy(_, _, _)
\* re.sub(r'(?s)OPEN.*?CLOSE', '', s): each OPEN up to the nearest CLOSE
StripLazy(s, open, close) ==
  IF s = <<>> THEN <<>>
  ELSE LET e == IF Head(s).t = open THEN FirstOf(s, close, 2) ELSE 0
       IN IF e > 0 THEN StripLazy(SubSeq(s, e + 1, Len(s)), open, close)
          ELSE <<Head(s)>> \o StripLazy(Tail(s), open, close)

RECURSIVE StripGreedy(_, _, _)
\* re.sub(r'(?s)OPEN.*CLOSE', '', s): the first OPEN up to the last CLOSE
StripGreedy(s, open, close) ==
  IF s = <<>> THEN <<>>
  ELSE LET e == IF Head(s).t = open THEN LastOf(s, close, 2) ELSE 0
       IN IF e > 0 THEN StripGreedy(SubSeq(s, e + 1, Len(s)), open, close)
          ELSE <<Head(s)>> \o StripGreedy(Tail(s), open, close)

\* strip_tag(text, tag), fpc.py 1018-1020
strip_tag(s, tag) ==
  IF tag = "s" THEN StripLazy(s, "so", "sc") ELSE StripLazy(s, "no", "nc")

\* filter_content(text), fpc.py 1001-1016
filter_content(s) ==
  StripLazy(StripGreedy(strip_tag(strip_tag(s, "s"), "nowiki"), "ino", "inc"),
            "co", "cc")

RECURSIVE CountVotes(_, _)
\* len(re.findall(R, text)) for the vote templates of kind v
CountVotes(s, v) ==
  IF s = <<>> THEN 0
  ELSE (IF Head(s).t = "vote" /\ Head(s).v = v THEN Head(s).n ELSE 0)
       + CountVotes(Tail(s), v)

(***************************************************************************)
(* The Candidate object and the run it belongs to.  Operations take and    *)
(* return a record m:                                                      *)
(*   docs, dry, auto   the store and the run mode                          *)
(*   answers           the operator's coming answers in interactive mode   *)
(*   key, kind         the nomination page and "fpc" or "delist"           *)
(*   votesCounted, pro, con, neu, imgCount, fileName, alternative          *)
(*                     the memoized fields (0 and <<>> stand for None)     *)
(*   daysOld, sinceEdit  what daysOld() and daysSinceLastEdit() return     *)
(*   locked            the pages whose put raises LockedPage               *)
(*   vres              park's local: the verified result being parked      *)
(*   result            the value closePage returns                         *)
(*   out               the status printed by an operation that reports     *)
(*   wrote             the pages put so far                                *)
(*   halt              "none", or why the run of this candidate ended:     *)
(*                     "return", "exit" (sys.exit) or the exception raised *)
(*   puts, prompts     number of page.put calls and of prompts shown       *)
(*   last              outcome of the last commit                          *)
(***************************************************************************)
NewCandidate(d, dry, auto, answers, key, kind) ==
  [docs |-> d, dry |-> dry, auto |-> auto, answers |-> answers,
   key |-> key, kind |-> kind,
   votesCounted |-> FALSE, pro |-> 0, con |-> 0, neu |-> 0,
   imgCount |-> 0, fileName |-> <<>>, alternative |-> <<>>,
   daysOld |-> 0, sinceEdit |-> 0, locked |-> {},
   vres |-> [featured |-> "none"], halt |-> "none", result |-> "None", out |-> "",
   puts |-> 0, wrote |-> {}, prompts |-> 0, last |-> "none"]

\* the vocabulary of the two subclasses, fpc.py 821-823 and 869-871
ProVote(m)   == IF m.kind = "fpc" THEN "support" ELSE "delist"
ConVote(m)   == IF m.kind = "fpc" THEN "oppose" ELSE "keep"
ProString(m) == IF m.kind = "fpc" THEN "featured" ELSE "delisted"
ConString(m) == IF m.kind = "fpc" THEN "not featured" ELSE "not delisted"
ListPageName(m) == IF m.kind = "fpc" THEN FpcListPage ELSE DelistPage

Raise(m, e) == [m EXCEPT !.halt = e]

\* run F unless the candidate's run has ended
Then(m, F(_)) == IF m.halt # "none" THEN m ELSE F(m)

\* page.get(): the text of the nomination page (callers check existence)
PageText(m) == m.docs[m.key].text

countVotesMutantNoMemo(m) ==
  LET text == FlatText(PageText(m))
      f    == filter_content(text)
  IN IF text # <<>>
     THEN [m EXCEPT !.pro = CountVotes(f, ProVote(m)),
                    !.con = CountVotes(f, ConVote(m)),
                    !.neu = CountVotes(f, "neutral"),
                    !.votesCounted = TRUE]
     ELSE [m EXCEPT !.votesCounted = TRUE]

\* countVotes(), fpc.py 118-137
countVotes(m) ==
  IF m.votesCounted THEN m
  ELSE LET text == FlatText(PageText(m))
           f    == filter_content(text)
       IN IF text # <<>>
          THEN [m EXCEPT !.pro = CountVotes(f, ProVote(m)),
                         !.con = CountVotes(f, ConVote(m)),
                         !.neu = CountVotes(f, "neutral"),
                         !.votesCounted = TRUE]
          ELSE [m EXCEPT !.votesCounted = TRUE]

\* isWithdrawn(), fpc.py 139-144
isWithdrawn(m) ==
  FirstOf(filter_content(FlatText(PageText(m))), "withdraw", 1) > 0

isFPXMutantNever(m) == FALSE

\* isFPX(), fpc.py 146-148
isFPX(m) == FirstOf(FlatText(PageText(m)), "fpx", 1) > 0

isPassedMutantNoQuorum(m) ==
  IF isWithdrawn(m) THEN FALSE
  ELSE LET c == countVotes(m) IN c.pro >= 2 * c.con

\* isPassed(), fpc.py 329-343
isPassed(m) ==
  IF isWithdrawn(m) THEN FALSE
  ELSE LET c == IF ~m.votesCounted THEN countVotes(m) ELSE m
       IN c.pro >= PassQuorum /\ c.pro >= 2 * c.con

(***************************************************************************)
(* The commit gate                                                         *)
(***************************************************************************)
commitChoiceMutantAutoFirst(m) ==
  IF m.auto THEN "y"
  ELSE IF m.dry THEN "n"
  ELSE IF m.answers = <<>> THEN "n" ELSE Head(m.answers)

\* the choice commit() acts on, fpc.py 799-807; 'N' is the prompt's default
commitChoice(m) ==
  IF m.dry THEN "n"
  ELSE IF m.auto THEN "y"
  ELSE IF m.answers = <<>> THEN "n" ELSE Head(m.answers)

\* commit(old_text, new_text, page, comment), fpc.py 773-815
commit(m, new_text, page) ==
  LET choice   == commitChoice(m)
      prompted == ~m.dry /\ ~m.auto
      m1 == IF prompted
            THEN [m EXCEPT !.prompts = @ + 1,
                           !.answers = IF @ = <<>> THEN @ ELSE Tail(@)]
            ELSE m
  IN CASE choice = "y" /\ page \in m.locked ->
            [m1 EXCEPT !.halt = "LockedPage", !.last = "locked"]
       [] choice = "y" ->
            [m1 EXCEPT !.docs = [@ EXCEPT ![page] = Doc(new_text)],
                       !.puts = @ + 1, !.wrote = @ \cup {page},
                       !.last = "written"]
       [] choice = "q" -> [m1 EXCEPT !.halt = "exit", !.last = "aborted"]
       [] OTHER        -> [m1 EXCEPT !.last = "skipped"]

(***************************************************************************)
(* Image count, file name, heading                                         *)
(***************************************************************************)
Max(S) == CHOOSE x \in S : \A y \in S : x >= y

ImageItems(s) == SelectSeq(s, LAMBDA it : it.t = "img")

\* an image link written without any parameter, [[File:x.jpg]]
IsBare(it) == "bare" \in DOMAIN it /\ it.bare

RECURSIVE ImageMatches(_)
\* re.finditer(ImagesR, text), fpc.py 368-370 and 1130: what each match
\* holds.  [^\|]+ runs on from a link without a pipe, over line ends, up to
\* the first pipe of a later link, and the match closes at that link's ]];
\* with no later pipe it closes at the last ]] of the text
ImageMatches(s) ==
  IF s = <<>> THEN <<>>
  ELSE IF Head(s).t # "img" THEN ImageMatches(Tail(s))
  ELSE IF ~IsBare(Head(s))
  THEN <<[thumb |-> Head(s).thumb, px |-> Head(s).px]>> \o ImageMatches(Tail(s))
  ELSE LET piped == {k \in 2..Len(s) : s[k].t = "img" /\ ~IsBare(s[k])}
           links == {k \in 1..Len(s) : s[k].t = "img"}
           e     == IF piped # {} THEN CHOOSE k \in piped : \A j \in piped : k <= j
                    ELSE CHOOSE k \in links : \A j \in links : k >= j
       IN <<[thumb |-> s[e].thumb, px |-> s[e].px]>>
          \o ImageMatches(SubSeq(s, e + 1, Len(s)))

\* imageCount(), fpc.py 355-386
imageCount(m) ==
  LET matches == ImageMatches(FlatText(PageText(m)))
      count   == Len(matches)
      small   == {i \in 1..count :
                    matches[i].thumb \/
                    (matches[i].px > 0 /\ matches[i].px <= SmallImagePx)}
  IN IF count >= 2 THEN count - Cardinality(small) ELSE count

\* fileName(alternative), fpc.py 464-485
fileName(m, alternative) ==
  IF alternative /\ m.alternative # <<>> THEN m.alternative
  ELSE LET fromTitle == Tail(m.key)
           imgs      == ImageItems(FlatText(PageText(m)))
       IN IF ~Exists(m.docs, fromTitle) /\ imgs # <<>>
          THEN imgs[1].fn ELSE fromTitle

\* where re.sub(r'(===.*)(===)', .., text, 1) puts the status: before the
\* last === of the first line that has a heading; <<line, item>>, or <<>>
FirstHeading(text) ==
  LET hits == {p \in UNION {{<<i, j>> : j \in 1..Len(text[i])} : i \in 1..Len(text)} :
                 text[p[1]][p[2]].t = "head"}
  IN IF hits = {} THEN <<>>
     ELSE CHOOSE p \in hits :
            \A q \in hits : p[1] < q[1] \/ (p[1] = q[1] /\ p[2] >= q[2])

\* fixHeader(text, value), fpc.py 231-253
fixHeader(m, text, value) ==
  LET atStart == /\ text # <<>> /\ text[1] # <<>> /\ text[1][1].t = "head"
                 /\ text[1][1].suf # <<>>
                 /\ Last(text[1][1].suf) \in {ProString(m), ConString(m)}
      status  == CASE value = "yes" -> ProString(m)
                   [] value = "no"  -> ConString(m)
                   [] OTHER -> IF isPassed(m) THEN ProString(m) ELSE ConString(m)
      h       == FirstHeading(text)
  IN IF atStart \/ h = <<>> THEN text
     ELSE [text EXCEPT ![h[1]][h[2]].suf = Append(@, status)]

(***************************************************************************)
(* Verified results                                                        *)
(***************************************************************************)
VerifiedItems(line, kind) ==
  SelectSeq(line, LAMBDA it : it.t = "verified" /\ it.kind = kind)

RECURSIVE VerifiedResults(_, _)
\* re.findall(self._VerifiedR, text), fpc.py 728.  VerifiedResultR ends in a
\* greedy .*}} and so takes the rest of the line with the first template;
\* VerifiedDelistResultR ends in .*?}} and finds every template.
VerifiedResults(text, kind) ==
  IF text = <<>> THEN <<>>
  ELSE LET vs == VerifiedItems(Head(text), kind)
       IN (IF kind = "fpc" /\ vs # <<>> THEN <<vs[1]>> ELSE vs)
          \o VerifiedResults(Tail(text), kind)

(***************************************************************************)
(* The parking steps                                                       *)
(***************************************************************************)
ListWindow == 4      \* ListPageR: the four .*\s* of the gallery

Nominator == "Nom"   \* first author of the nomination page
Uploader  == "Upl"   \* first author of the image page

\* page.get(get_redirect=True) of another page: the text, or NoPage raised
GetOr(m, key, F(_)) ==
  IF Exists(m.docs, key) THEN F(m.docs[key].text) ELSE Raise(m, "NoPage")

RECURSIVE ListPageSub(_, _, _, _)
\* re.sub(ListPageR, r"\1FN\n\2\3\5", old_text), fpc.py 519-520: under the
\* section of the category, the gallery's opening line, then the lines that
\* the four .*\s* can take before a </gallery>; the fourth one is dropped
ListPageSub(text, i, category, fn) ==
  IF i > Len(text) THEN <<>>
  ELSE LET isHead == /\ text[i].t = "sec" /\ text[i].cat = category
                     /\ i + 1 <= Len(text) /\ text[i + 1].t = "gopen"
           cs == IF isHead
                 THEN {c \in 0..ListWindow :
                         i + 2 + c <= Len(text) /\ text[i + 2 + c].t = "gclose"}
                 ELSE {}
       IN IF cs = {} THEN <<text[i]>> \o ListPageSub(text, i + 1, category, fn)
          ELSE LET c    == Max(cs)
                   keep == IF c = ListWindow THEN ListWindow - 1 ELSE c
               IN <<text[i], text[i + 1], [t |-> "entry", fn |-> fn, cap |-> <<>>]>>
                  \o SubSeq(text, i + 2, i + 1 + keep)
                  \o <<text[i + 2 + c]>>
                  \o ListPageSub(text, i + 3 + c, category, fn)

\* addToFeaturedList(category), fpc.py 488-521: step 1
addToFeaturedList(m, category) ==
  GetOr(m, ListPage, LAMBDA old_text :
    IF TextSearch(wikipattern(fileName(m, TRUE)), old_text) THEN m
    ELSE commit(m, ListPageSub(old_text, 1, category, fileName(m, TRUE)), ListPage))

\* text with line l put before position i
InsertAt(text, i, l) ==
  SubSeq(text, 1, i - 1) \o <<l>> \o SubSeq(text, i, Len(text))

Panoramas == <<"Places", "/", "Panoramas">>

\* addToCategorizedFeaturedList(category), fpc.py 523-552: step 2
addToCategorizedFeaturedList(m, category) ==
  GetOr(m, CatPage(category), LAMBDA old_text :
    IF TextSearch(wikipattern(fileName(m, TRUE)), old_text) THEN m
    ELSE LET fn    == fileName(m, TRUE)
             title == cleanTitle(m.key)
             lastI == LastOf(old_text, "link", 1)
             lastG == LastOf(old_text, "gclose", 1)
             new_text ==
               IF category = Panoramas
               THEN IF lastI = 0 THEN old_text
                    ELSE InsertAt(old_text, lastI + 1,
                                  [t |-> "link", fn |-> fn, cap |-> title])
               ELSE IF lastG = 0 THEN old_text
                    ELSE InsertAt(old_text, lastG,
                                  [t |-> "entry", fn |-> fn, cap |-> title])
         IN commit(m, new_text, CatPage(category)))

\* the parameters of the new {{Assessments}}, fpc.py 583-589: the two re.sub
\* remove "|featured=N", "|com=N", "|subpage=..", "|com-nom=.." and so only
\* parameters that follow a pipe inside group(1), i.e. not the first one
AssParams(params, comnom) ==
  LET kept == IF params = <<>> THEN <<>>
              ELSE <<params[1]>> \o
                   SelectSeq(Tail(params), LAMBDA q :
                     q.k \notin {"featured", "com", "subpage", "com-nom"})
  IN kept \o <<[k |-> "featured", v |-> <<"1">>]>> \o comnom

\* addAssessments(), fpc.py 558-600: step 3
addAssessments(m) ==
  GetOr(m, fileName(m, TRUE), LAMBDA old_text :
    LET fn_or  == fileName(m, FALSE)
        fn_al  == fileName(m, TRUE)
        comnom == IF fn_or # fn_al THEN <<[k |-> "com-nom", v |-> fn_or]>> ELSE <<>>
        first  == FirstOf(old_text, "ass", 1)
    IN IF first > 0
       THEN LET new_ass  == [t |-> "ass",
                             params |-> AssParams(old_text[first].params, comnom)]
                new_text == [i \in 1..Len(old_text) |->
                               IF old_text[i].t = "ass" THEN new_ass ELSE old_text[i]]
            IN IF new_text = old_text THEN m
               ELSE commit(m, new_text, fileName(m, TRUE))
       ELSE LET end == FirstOf(old_text, "info", 1)   \* findEndOfTemplate
            IN commit(m, InsertAt(old_text, end + 1,
                                  [t |-> "ass",
                                   params |-> <<[k |-> "featured", v |-> <<"1">>]>>
                                              \o comnom]),
                      fileName(m, TRUE)))

\* re.sub('</gallery>', ENTRY + "\n</gallery>", old_text), fpc.py 626
BeforeEachClose(text, l) ==
  Flatten([i \in 1..Len(text) |->
             IF text[i].t = "gclose" THEN <<l, text[i]>> ELSE <<text[i]>>])

\* addToCurrentMonth(), fpc.py 602-628: step 4
addToCurrentMonth(m) ==
  GetOr(m, MonthPage, LAMBDA old_text :
    IF TextSearch(wikipattern(fileName(m, TRUE)), old_text) THEN m
    ELSE LET open  == FirstOf(old_text, "gopen", 1)
             close == IF open = 0 THEN 0 ELSE LastOf(old_text, "gclose", open)
         IN IF close = 0 THEN Raise(m, "AttributeError")   \* m is None
            ELSE commit(m,
                   BeforeEachClose(old_text,
                     [t |-> "entry", fn |-> fileName(m, TRUE),
                      cap |-> cleanTitle(m.key), n |-> close - open,
                      by |-> <<Uploader, Nominator>>]),
                   MonthPage))

\* notifyNominator(), fpc.py 630-664: step 5
notifyNominator(m) ==
  LET talk  == TalkPage(Nominator)
      fn_or == fileName(m, FALSE)
      fn_al == fileName(m, TRUE)
  IN IF ~Exists(m.docs, talk) THEN m
     ELSE LET old_text == m.docs[talk].text
              pattern  == <<"{{FPpromotion|">> \o wikipattern(fn_or) \o <<"}}">>
          IN IF TextSearch(pattern, old_text) THEN m
             ELSE LET r == commit(m,
                                 Append(old_text,
                                   [t |-> "fpp", fn |-> fn_al,
                                    sub |-> IF fn_or # fn_al THEN fn_or ELSE <<>>]),
                                 talk)
                  IN \* except pywikibot.LockedPage: ignored, fpc.py 663-664
                     IF r.halt = "LockedPage" THEN [r EXCEPT !.halt = "none"] ELSE r

moveToLogAddMutantSkip(m) == m

moveToLogAddMutantDirectPut(m) ==
  LET old_log_text == IF Exists(m.docs, LogPage) THEN m.docs[LogPage].text ELSE <<>>
  IN [m EXCEPT !.docs = [@ EXCEPT ![LogPage] =
                           Doc(Append(old_log_text, [t |-> "incl", title |-> m.key]))]]

\* moveToLog(reason), fpc.py 674-693: the log half of step 6
moveToLogAdd(m) ==
  LET old_log_text == IF Exists(m.docs, LogPage) THEN m.docs[LogPage].text ELSE <<>>
  IN IF TextSearch(wikipattern(fileName(m, TRUE)), old_log_text) THEN m
     ELSE commit(m, Append(old_log_text, [t |-> "incl", title |-> m.key]), LogPage)

\* moveToLog(reason), fpc.py 695-703: the listing half of step 6
moveToLogRemove(m) ==
  GetOr(m, ListPageName(m), LAMBDA old_cand_text :
    LET pattern == <<"{{">> \o wikipattern(m.key) \o <<"}}">>
        new_cand_text ==
          SelectSeq(old_cand_text, LAMBDA l : ~RegexSearch(pattern, RenderLine(l)))
    IN IF old_cand_text = new_cand_text THEN m
       ELSE commit(m, new_cand_text, ListPageName(m)))

\* moveToLog(reason), fpc.py 666-703: step 6
moveToLog(m) == Then(moveToLogAdd(m), moveToLogRemove)

(***************************************************************************)
(* Delisting: the removal steps                                            *)
(***************************************************************************)
\* the documents removeFromFeaturedLists visits, fpc.py 894-897: the pages
\* under "Commons:Featured pictures/" that refer to the image
FeaturedRefs(m) ==
  {k \in DOMAIN m.docs :
     /\ m.docs[k].exists
     /\ k[1] \in {"Commons:Featured pictures/", MonthPage[1]}
     /\ \E i \in 1..Len(m.docs[k].text) :
          LET l == m.docs[k].text[i]
          IN l.t \in {"entry", "link"} /\ l.fn = fileName(m, TRUE)}

\* the entry pattern of fpc.py 901 and 905
DelistPattern(m) ==
  <<"File:">> \o wikipattern(SubSeq(m.key, 3, Len(m.key)))

\* the new text of one referring page, fpc.py 897-906
DelistedText(m, k) ==
  LET old_text == m.docs[k].text
      hit(l)   == RegexSearch(DelistPattern(m), RenderLine(l))
  IN IF k = MonthPage
     THEN [i \in 1..Len(old_text) |->
             IF ~hit(old_text[i]) THEN old_text[i]
             ELSE IF "delisted" \in DOMAIN old_text[i]
                  THEN [old_text[i] EXCEPT !.delisted = @ + 1]
                  ELSE old_text[i] @@ [delisted |-> 1]]
     ELSE SelectSeq(old_text, LAMBDA l : ~hit(l))

RECURSIVE removeFromRefs(_, _)
removeFromRefs(m, refs) ==
  IF refs = {} \/ m.halt # "none" THEN m
  ELSE LET k == CHOOSE x \in refs : TRUE
       IN removeFromRefs(commit(m, DelistedText(m, k), k), refs \ {k})

\* removeFromFeaturedLists(results), fpc.py 886-906
removeFromFeaturedLists(m) == removeFromRefs(m, FeaturedRefs(m))

\* removeAssessments(), fpc.py 908-922: the last featured=1 / com=1 becomes 2
removeAssessments(m) ==
  GetOr(m, fileName(m, TRUE), LAMBDA old_text :
    LET demote(ps) ==
          LET hits == {i \in 1..Len(ps) :
                         ps[i].k \in {"featured", "com"} /\ ps[i].v = <<"1">>}
          IN IF hits = {} THEN ps ELSE [ps EXCEPT ![Max(hits)].v = <<"2">>]
        new_text == [i \in 1..Len(old_text) |->
                       IF old_text[i].t = "ass"
                       THEN [old_text[i] EXCEPT !.params = demote(@)]
                       ELSE old_text[i]]
    IN commit(m, new_text, fileName(m, TRUE)))

(***************************************************************************)
(* park                                                                    *)
(***************************************************************************)
\* re.sub(r'#.*', '', results[4]), fpc.py 842
StripSection(category) ==
  LET h == {i \in 1..Len(category) : category[i] = "#"}
  IN IF h = {} THEN category
     ELSE SubSeq(category, 1, (CHOOSE i \in h : \A k \in h : i <= k) - 1)

\* re.search(r'(.*?)(?:/|$)', fcategory).group(1), fpc.py 859
TopCategory(category) ==
  LET h == {i \in 1..Len(category) : category[i] = "/"}
  IN IF h = {} THEN category
     ELSE SubSeq(category, 1, (CHOOSE i \in h : \A k \in h : i <= k) - 1)

\* park() up to the choice of the branch, fpc.py 721-757
parkHead(m) ==
  IF ~Exists(m.docs, m.key) THEN Raise(m, "return")
  ELSE LET text    == PageText(m)
           results == VerifiedResults(text, m.kind)
       IN IF results = <<>> THEN Raise(m, "return")
          ELSE IF Len(results) > 1 THEN Raise(m, "return")
          ELSE IF isWithdrawn(m) THEN Raise(m, "return")
          ELSE IF isFPX(m) THEN Raise(m, "return")
          ELSE IF ~Exists(m.docs, fileName(m, TRUE)) THEN Raise(m, "return")
          ELSE LET vres     == results[1]
                   new_text == fixHeader(m, text, vres.featured)
                   m1       == [m EXCEPT !.vres = vres]
               IN IF new_text # text THEN commit(m1, new_text, m.key) ELSE m1

\* FPCandidate.handlePassedCandidate up to the first step, fpc.py 838-858
handlePassedHead(m) ==
  LET fcategory == StripSection(m.vres.category)
      m1 == IF imageCount(m) > 1
            THEN IF m.vres.alternative # <<>>
                 THEN IF ~Exists(m.docs, m.vres.alternative) THEN m
                      ELSE [m EXCEPT !.alternative = m.vres.alternative]
                 ELSE Raise(m, "return")
            ELSE m
  IN IF m1.halt # "none" THEN m1
     ELSE IF fcategory = <<>> THEN Raise(m1, "return")
     ELSE m1

Step1(m) == addToFeaturedList(m, Head(TopCategory(StripSection(m.vres.category))))
Step2(m) == addToCategorizedFeaturedList(m, StripSection(m.vres.category))

\* handlePassedCandidate(results), fpc.py 838-864 and 880-884
handlePassedCandidate(m) ==
  IF m.kind = "fpc"
  THEN Then(Then(Then(Then(Then(Then(handlePassedHead(m),
         Step1), Step2), addAssessments), addToCurrentMonth), notifyNominator),
         moveToLog)
  ELSE Then(Then(removeFromFeaturedLists(m), removeAssessments), moveToLog)

parkBranchMutantAlwaysPassed(m) == "yes"

\* park, fpc.py 759-766: the branch the verified outcome selects
parkBranch(m) ==
  IF m.vres.featured = "yes" THEN "yes"
  ELSE IF m.vres.featured = "no" THEN "no"
  ELSE "ignore"

\* park(), fpc.py 705-766
park(m) ==
  LET m1 == parkHead(m)
  IN IF m1.halt # "none" THEN m1
     ELSE IF parkBranch(m1) = "yes" THEN handlePassedCandidate(m1)
     ELSE IF parkBranch(m1) = "no" THEN moveToLog(m1)
     ELSE Raise(m1, "return")

(***************************************************************************)
(* Closing                                                                 *)
(***************************************************************************)
\* rulesOfFifthDay(), fpc.py 150-163 (None counts as False)
rulesOfFifthDayMutantNoAge(m) ==
  LET c == countVotes(m)
  IN c.pro <= 1 \/ (c.pro >= FifthDayPro /\ c.con = 0)

rulesOfFifthDay(m) ==
  IF m.daysOld < FifthDay THEN FALSE
  ELSE LET c == countVotes(m)
       IN c.pro <= 1 \/ (c.pro >= FifthDayPro /\ c.con = 0)

\* isDone(), fpc.py 323-327
isDone(m) == m.daysOld >= DoneDays

\* isIgnored(), fpc.py 346-348
isIgnored(m) == imageCount(m) > 1

\* re.search(r'{{\s*FPC-closed-ignored.*}}', old_text), fpc.py 204
HasIgnoreMarker(text) == FirstOf(FlatText(text), "ignore", 1) > 0

HasCountedMarkerMutantNever(m, text) == FALSE

\* re.search(self._CountedR, old_text), fpc.py 208
HasCountedMarker(m, text) ==
  LET f == FlatText(text)
  IN \E i \in 1..Len(f) : f[i].t = "counted" /\ f[i].kind = m.kind

\* re.search(self._ReviewedR, old_text), fpc.py 212
HasReviewedMarker(m, text) ==
  LET f == FlatText(text)
  IN \E i \in 1..Len(f) : f[i].t = "verified" /\ f[i].kind = m.kind

\* getResultString(), fpc.py 825-830 and 873-875
getResultString(m) ==
  IF m.kind = "fpc" /\ imageCount(m) > 1
  THEN [t |-> "counted", kind |-> "fpc", manual |-> TRUE, featured |-> "no"]
  ELSE [t |-> "counted", kind |-> m.kind, manual |-> FALSE,
        pro |-> m.pro, con |-> m.con, neu |-> m.neu,
        featured |-> IF isPassed(m) THEN "yes" ELSE "no"]

\* return v, unless an exception or sys.exit has ended the call already
Return(m, v) ==
  IF m.halt # "none" THEN m ELSE [m EXCEPT !.result = v, !.halt = "return"]

\* closePage(), fpc.py 166-229
oldEnoughMutantAlways(m) == TRUE

\* closePage, fpc.py 183: more than a full day since the last edit
oldEnough(m) == m.sinceEdit > 0

withdrawalBranchMutantAnyImages(m) == isWithdrawn(m) \/ isFPX(m)

\* closePage, fpc.py 177: the test of the withdrawal branch
withdrawalBranch(m) == (isWithdrawn(m) \/ isFPX(m)) /\ imageCount(m) <= 1

closePage(m) ==
  IF ~Exists(m.docs, m.key) THEN Return(m, "None")
  ELSE IF withdrawalBranch(m)
  THEN IF ~oldEnough(m) THEN Return(m, "False")
       ELSE Return(moveToLog(m), "True")
  ELSE
    LET fifthDay == IF imageCount(m) > 1 THEN FALSE ELSE rulesOfFifthDay(m)
        old_text == PageText(m)
    IN IF ~fifthDay /\ ~isDone(m) THEN Return(m, "False")
       ELSE IF FlatText(old_text) = <<>> THEN Return(m, "False")
       ELSE IF HasIgnoreMarker(old_text) THEN Return(m, "False")
       ELSE IF HasCountedMarker(m, old_text) THEN Return(m, "False")
       ELSE IF HasReviewedMarker(m, old_text) THEN Return(m, "False")
       ELSE LET c        == IF imageCount(m) <= 1 THEN countVotes(m) ELSE m
                result   == getResultString(c)
                appended == old_text \o << <<>>, <<result>> >>
                new_text == IF imageCount(m) <= 1
                            THEN fixHeader(c, appended, "") ELSE appended
            IN Return(commit(c, new_text, m.key), "True")

(***************************************************************************)
(* Reporting: -info and -test                                              *)
(***************************************************************************)
statusStringMutantWithdrawnFirst(m) ==
  IF isWithdrawn(m) THEN "Withdrawn"
  ELSE IF isIgnored(m) THEN "Ignored"
  ELSE IF ~isDone(m) THEN "Active"
  ELSE IF isPassed(m) THEN ProString(m) ELSE ConString(m)

\* statusString(), fpc.py 284-293
statusString(m) ==
  IF isIgnored(m) THEN "Ignored"
  ELSE IF isWithdrawn(m) THEN "Withdrawn"
  ELSE IF ~isDone(m) THEN "Active"
  ELSE IF isPassed(m) THEN ProString(m) ELSE ConString(m)

\* printAllInfo(), fpc.py 80-93: NoPage is caught and reported
printAllInfo(m) ==
  IF ~Exists(m.docs, m.key) THEN [m EXCEPT !.out = "No such page"]
  ELSE LET c == countVotes(m) IN [c EXCEPT !.out = statusString(c)]

\* existingResult(), fpc.py 388-399: the matches of PreviousResultR
existingResult(m) ==
  SelectSeq(FlatText(PageText(m)), LAMBDA it : it.t = "prev")

\* compareResultToCount(), fpc.py 401-445
compareResultToCount(m) ==
  IF ~Exists(m.docs, m.key) THEN Raise(m, "NoPage")
  ELSE LET res == existingResult(m)
       IN IF isWithdrawn(m) THEN [m EXCEPT !.out = "ignoring, was withdrawn"]
          ELSE IF isFPX(m) THEN [m EXCEPT !.out = "ignoring, was FPXed"]
          ELSE IF res = <<>> THEN [m EXCEPT !.out = "ignoring, has no results"]
          ELSE IF Len(res) > 1 THEN [m EXCEPT !.out = "ignoring, has several results"]
          ELSE LET old_res == res[1]
                   was_featured == old_res.status = "featured"
                   c == countVotes(m)
               IN [c EXCEPT !.out =
                     IF /\ c.pro = old_res.pro /\ c.con = old_res.con
                        /\ c.neu = old_res.neu /\ was_featured = isPassed(c)
                     THEN "OK" ELSE "FAIL"]

(***************************************************************************)
(* Names used by the runs below                                            *)
(***************************************************************************)
PlainName == <<"a">>             \* File:a.jpg
PlusName  == <<"a", "+", "b">>   \* File:a+b.jpg
AltName   == <<"c">>             \* File:c.jpg, an alternative of a nomination
OtherName == <<"o">>             \* File:o.jpg, somebody else's picture

Kinds == {"fpc", "delist"}

\* a nomination page: heading, image, votes, and the given extra lines
NomText(fn, kind, pro, con, extra) ==
  << <<[t |-> "head", suf |-> <<>>]>>,
     <<[t |-> "img", fn |-> fn, thumb |-> FALSE, px |-> 0]>>,
     <<[t |-> "vote", v |-> IF kind = "fpc" THEN "support" ELSE "delist", n |-> pro],
       [t |-> "vote", v |-> IF kind = "fpc" THEN "oppose" ELSE "keep", n |-> con]>> >>
  \o extra

(***************************************************************************)
(* SpecPassed: isPassed applied to a page with the drawn tallies           *)
(***************************************************************************)
InitPassed ==
  \E w \in BOOLEAN, pro \in 0..MaxVotes, con \in 0..MaxVotes, kind \in Kinds :
    LET key == TitleOf(FileOf(PlainName)) IN
    /\ inp = [withdrawn |-> w, pro |-> pro, con |-> con, kind |-> kind, key |-> key]
    /\ docs = (key :> Doc(NomText(FileOf(PlainName), kind, pro, con,
                                  IF w THEN << <<[t |-> "withdraw"]>> >> ELSE <<>>)))
    /\ docs0 = docs
    /\ G_Dry = FALSE /\ G_Auto = TRUE
    /\ daysOld = 0 /\ sinceEdit = 0
    /\ obj = "none" /\ pc = "idle" /\ puts = 0 /\ ret = [op |-> "none"]
    /\ calls = <<>> /\ snap = <<>> /\ crashes = 0 /\ NoBatch

IsPassedCall ==
  /\ pc = "idle"
  /\ LET m == NewCandidate(docs, G_Dry, G_Auto, <<>>, inp.key, inp.kind)
     IN ret' = [op |-> "isPassed", value |-> isPassed(m)]
  /\ pc' = "done"
  /\ UNCHANGED <<docs, G_Dry, G_Auto, G_Threads, G_Abort, run, daysOld, sinceEdit, obj, puts, inp,
                 docs0, calls, snap, crashes>>

NextPassed == IsPassedCall

SpecPassed == InitPassed /\ [][NextPassed]_vars

\* C1: isPassed is false for a withdrawn candidate and otherwise true exactly
\* when pro >= 7 and pro >= 2 * con, for every drawn combination
C1_IsPassedRule ==
  ret.op = "isPassed" =>
    ret.value = (~inp.withdrawn /\ inp.pro >= 7 /\ inp.pro >= 2 * inp.con)

\* 7 pro / 3 con, not withdrawn, has been judged and passes
C1_Witness ==
  /\ ret.op = "isPassed" /\ ~inp.withdrawn /\ inp.pro = 7 /\ inp.con = 3
  /\ ret.value = TRUE

(***************************************************************************)
(* SpecCommit: commit called with every mode, answer, page and text        *)
(***************************************************************************)
CommitPages == {ListPage, LogPage}

CommitTexts ==
  { <<>>,
    <<[t |-> "incl", title |-> TitleOf(FileOf(PlainName))]>>,
    <<[t |-> "incl", title |-> TitleOf(FileOf(PlainName))],
      [t |-> "incl", title |-> TitleOf(FileOf(OtherName))]>> }

InitCommit ==
  \E dry \in BOOLEAN, auto \in BOOLEAN :
    /\ G_Dry = dry /\ G_Auto = auto
    /\ docs = (ListPage :> Doc(<<>>)) @@ (LogPage :> NoDoc)
    /\ docs0 = docs
    /\ inp = [dry |-> dry, auto |-> auto]
    /\ daysOld = 0 /\ sinceEdit = 0
    /\ obj = "none" /\ pc = "idle" /\ puts = 0 /\ ret = [op |-> "none"]
    /\ calls = [o \in {"commit"} |-> 0] /\ snap = <<>> /\ crashes = 0 /\ NoBatch

\* one call of commit; a quit answer ends the process (sys.exit)
CommitCall ==
  /\ pc = "idle"
  /\ calls["commit"] < MaxCalls
  /\ \E page \in CommitPages, new \in CommitTexts, answer \in {"y", "n", "q"} :
       LET m  == NewCandidate(docs, G_Dry, G_Auto, <<answer>>,
                              TitleOf(FileOf(PlainName)), "fpc")
           m2 == commit(m, new, page)
       IN /\ docs' = m2.docs
          /\ puts' = puts + m2.puts
          /\ pc' = IF m2.halt = "exit" THEN "exited" ELSE "idle"
          /\ ret' = [op |-> "commit", page |-> page, new |-> new,
                     answer |-> answer, before |-> docs,
                     outcome |-> m2.last, prompted |-> m2.prompts > 0,
                     put |-> m2.puts > 0]
  /\ calls' = [calls EXCEPT !["commit"] = @ + 1]
  /\ UNCHANGED <<G_Dry, G_Auto, G_Threads, G_Abort, run, daysOld, sinceEdit, obj, inp, docs0, snap, crashes>>

NextCommit == CommitCall

SpecCommit == InitCommit /\ [][NextCommit]_vars

\* C9: a call of commit is written, skipped or aborted as the mode and the
\* answer say: dry never writes (also with auto); auto writes without a
\* prompt; interactive writes on yes, leaves the page and goes on on no, and
\* writes nothing and ends the run on quit.  The page then holds the whole
\* new text or its old state, and no other page changes.
C9_CommitOutcome ==
  ret.op = "commit" =>
    LET written == /\ ret.outcome = "written" /\ ret.put
                   /\ docs[ret.page] = Doc(ret.new)
        untouched == ~ret.put /\ docs[ret.page] = ret.before[ret.page]
    IN /\ G_Dry => /\ ret.outcome = "skipped" /\ untouched /\ ~ret.prompted
                   /\ pc = "idle"
       /\ (~G_Dry /\ G_Auto) => written /\ ~ret.prompted /\ pc = "idle"
       /\ (~G_Dry /\ ~G_Auto) =>
            /\ ret.prompted
            /\ ret.answer = "y" => written /\ pc = "idle"
            /\ ret.answer = "n" => ret.outcome = "skipped" /\ untouched /\ pc = "idle"
            /\ ret.answer = "q" => ret.outcome = "aborted" /\ untouched /\ pc = "exited"
       /\ \A k \in DOMAIN docs : k # ret.page => docs[k] = ret.before[k]

\* commit was called with both -dry and -auto set, for a text that differs
\* from the page's, and the page kept its text
C9_Witness ==
  /\ ret.op = "commit" /\ G_Dry /\ G_Auto
  /\ Doc(ret.new) # ret.before[ret.page]
  /\ docs[ret.page] = ret.before[ret.page]

(***************************************************************************)
(* SpecPark: park in auto mode, step by step, with interruptions.  A run   *)
(* is interrupted between two writes and park starts again from the        *)
(* candidate list; a nomination that is still listed when park has         *)
(* finished is parked again by the next run of the bot.                    *)
(***************************************************************************)
Category == <<"Animals", "/", "Birds">>

ParkSteps == {"s1", "s2", "s3", "s4", "s5", "s6a", "s6b", "d1", "d2"}

\* the verified-result template of the nomination
Marker(kind, featured, multi) ==
  [t |-> "verified", kind |-> kind, featured |-> featured,
   category |-> IF kind = "fpc" THEN Category ELSE <<>>,
   alternative |-> IF multi THEN FileOf(AltName) ELSE <<>>]

\* the lines that carry the verified results, for each arrangement
MarkerLines(arr, mk) ==
  CASE arr = "none"      -> <<>>
    [] arr = "one"       -> << <<mk>> >>
    [] arr = "two_lines" -> << <<mk>>, <<mk>> >>
    [] arr = "same_line" -> << <<mk, mk>> >>

\* an image description page
ImageText(ass) ==
  <<[t |-> "info"]>> \o
  (CASE ass = "none"     -> <<>>
     [] ass = "other"    -> <<[t |-> "ass", params |-> <<[k |-> "quality", v |-> <<"1">>]>>]>>
     [] ass = "featured" -> <<[t |-> "ass", params |-> <<[k |-> "featured", v |-> <<"1">>]>>]>>)

\* the line a withdraw or FPX template stands on
FlagLine(flag) ==
  CASE flag = "none"     -> <<>>
    [] flag = "withdraw" -> << <<[t |-> "withdraw"]>> >>
    [] flag = "fpx"      -> << <<[t |-> "fpx"]>> >>

Entry(name) == [t |-> "entry", fn |-> FileOf(name), cap |-> <<>>]

\* the store a park run starts from
ParkStore(i) ==
  LET fn    == FileOf(i.name)
      mine  == IF i.kind = "delist" THEN <<Entry(i.name)>> ELSE <<>>
      extra == IF i.multi
               THEN << <<[t |-> "img", fn |-> FileOf(AltName), thumb |-> FALSE, px |-> 0]>> >>
               ELSE <<>>
  IN (i.key :> Doc(NomText(fn, i.kind, PassQuorum, 0,
                     extra \o FlagLine(i.flag)
                     \o MarkerLines(i.verified, Marker(i.kind, i.featured, i.multi)))))
     @@ (fn :> Doc(ImageText(i.ass)))
     @@ (FileOf(AltName) :> Doc(ImageText(i.ass)))
     @@ (ListPage :> Doc(<<[t |-> "sec", cat |-> "Animals"], [t |-> "gopen"],
                           Entry(<<"o">>), Entry(<<"p">>), Entry(<<"q">>), Entry(<<"r">>),
                           [t |-> "gclose"],
                           [t |-> "sec", cat |-> "Plants"], [t |-> "gopen"],
                           [t |-> "gclose"]>>))
     @@ (CatPage(Category) :> Doc(<<[t |-> "gopen"], Entry(OtherName)>> \o mine
                                  \o <<[t |-> "gclose"]>>))
     @@ (MonthPage :> Doc(<<[t |-> "gopen"], Entry(OtherName)>> \o mine
                          \o <<[t |-> "gclose"]>>))
     @@ (TalkPage(Nominator) :> Doc(<<>>))
     @@ (LogPage :> NoDoc)
     @@ (ListPageName([kind |-> i.kind]) :>
           Doc(<<[t |-> "incl", title |-> TitleOf(FileOf(OtherName))],
                 [t |-> "incl", title |-> i.key]>>))

InitPark ==
  \E name \in {PlainName, PlusName}, kind \in Kinds,
     verified \in {"none", "one", "two_lines", "same_line"},
     featured \in {"yes", "no"}, multi \in BOOLEAN,
     ass \in {"none", "other", "featured"}, flag \in {"none", "withdraw", "fpx"} :
    /\ kind = "delist" => ~multi
    /\ inp = [name |-> name, kind |-> kind, verified |-> verified,
              featured |-> featured, multi |-> multi, ass |-> ass, flag |-> flag,
              key |-> TitleOf(FileOf(name))]
    /\ docs = ParkStore(inp)
    /\ docs0 = docs
    /\ G_Dry = FALSE /\ G_Auto = TRUE
    /\ daysOld = 0 /\ sinceEdit = 0
    /\ obj = NewCandidate(<<>>, FALSE, TRUE, <<>>, inp.key, inp.kind)
    /\ pc = "idle" /\ puts = 0 /\ ret = [op |-> "none"]
    /\ calls = [o \in ParkSteps \cup {"park", "restart"} |-> 0]
    /\ snap = [o \in ParkSteps |-> NoDoc]
    /\ crashes = 0 /\ NoBatch

\* the candidate object of the running park, on the store as it is now
Cand == [obj EXCEPT !.docs = docs, !.puts = 0,
                    !.locked = IF "locked" \in DOMAIN inp THEN inp.locked ELSE {}]

\* the bookkeeping common to the steps: m2 is the candidate after the step
RunStep(step, next, m2, target) ==
  /\ docs' = m2.docs
  /\ puts' = puts + m2.puts
  /\ obj' = [m2 EXCEPT !.docs = <<>>, !.puts = 0]
  /\ pc' = IF m2.halt # "none" THEN "failed" ELSE next
  /\ calls' = [calls EXCEPT ![step] = @ + 1]
  /\ snap' = IF calls[step] = 0 THEN [snap EXCEPT ![step] = m2.docs[target]] ELSE snap
  /\ ret' = [op |-> step, n |-> calls[step] + 1, target |-> target, before |-> docs]
  /\ UNCHANGED <<G_Dry, G_Auto, G_Threads, G_Abort, run, daysOld, sinceEdit, inp, docs0, crashes>>

\* park() from its start to the first step of the branch taken
ParkBegin ==
  /\ pc = "idle"
  /\ LET m  == NewCandidate(docs, G_Dry, G_Auto, <<>>, inp.key, inp.kind)
         m1 == parkHead(m)
         m2 == IF m1.halt = "none" /\ parkBranch(m1) = "yes" /\ m.kind = "fpc"
               THEN handlePassedHead(m1) ELSE m1
     IN /\ docs' = m2.docs
        /\ puts' = puts + m2.puts
        /\ obj' = [m2 EXCEPT !.docs = <<>>, !.puts = 0]
        /\ pc' = IF m2.halt # "none" THEN "done"
                 ELSE IF parkBranch(m2) = "yes"
                      THEN (IF m.kind = "fpc" THEN "s1" ELSE "d1")
                 ELSE IF parkBranch(m2) = "no" THEN "s6a"
                 ELSE "done"
        /\ ret' = [op |-> "park", n |-> calls["park"] + 1, target |-> inp.key,
                   before |-> docs]
  /\ calls' = [calls EXCEPT !["park"] = @ + 1]
  /\ UNCHANGED <<G_Dry, G_Auto, G_Threads, G_Abort, run, daysOld, sinceEdit, inp, docs0, snap, crashes>>

S1 == pc = "s1" /\ RunStep("s1", "s2", Step1(Cand), ListPage)
S2 == pc = "s2" /\ RunStep("s2", "s3", Step2(Cand), CatPage(Category))
S3 == pc = "s3" /\ RunStep("s3", "s4", addAssessments(Cand), fileName(Cand, TRUE))
S4 == pc = "s4" /\ RunStep("s4", "s5", addToCurrentMonth(Cand), MonthPage)
S5 == pc = "s5" /\ RunStep("s5", "s6a", notifyNominator(Cand), TalkPage(Nominator))
S6a == pc = "s6a" /\ RunStep("s6a", "s6b", moveToLogAdd(Cand), LogPage)
S6b == pc = "s6b" /\ RunStep("s6b", "done", moveToLogRemove(Cand), ListPageName(Cand))
D1 == pc = "d1" /\ RunStep("d1", "d2", removeFromFeaturedLists(Cand), MonthPage)
D2 == pc = "d2" /\ RunStep("d2", "s6a", removeAssessments(Cand), fileName(Cand, TRUE))

\* the process is interrupted between two steps; park is run again
Crash ==
  /\ pc \in ParkSteps
  /\ crashes < MaxCrashes
  /\ crashes' = crashes + 1
  /\ pc' = "idle"
  /\ obj' = NewCandidate(<<>>, FALSE, TRUE, <<>>, inp.key, inp.kind)
  /\ UNCHANGED <<docs, G_Dry, G_Auto, G_Threads, G_Abort, run, daysOld, sinceEdit, puts, ret, inp,
                 docs0, calls, snap>>

\* checkCandidates of the next run finds the nomination still listed
Restart ==
  /\ pc \in {"done", "failed"}
  /\ calls["restart"] + crashes < MaxCrashes
  /\ \E i \in 1..Len(docs[ListPageName(Cand)].text) :
       docs[ListPageName(Cand)].text[i] = [t |-> "incl", title |-> inp.key]
  /\ calls' = [calls EXCEPT !["restart"] = @ + 1]
  /\ pc' = "idle"
  /\ obj' = NewCandidate(<<>>, FALSE, TRUE, <<>>, inp.key, inp.kind)
  /\ UNCHANGED <<docs, G_Dry, G_Auto, G_Threads, G_Abort, run, daysOld, sinceEdit, puts, ret, inp,
                 docs0, snap, crashes>>

NextPark ==
  \/ ParkBegin \/ S1 \/ S2 \/ S3 \/ S4 \/ S5 \/ S6a \/ S6b \/ D1 \/ D2
  \/ Crash \/ Restart

SpecPark == InitPark /\ [][NextPark]_vars

\* the file the running park promotes
Promoted == fileName(Cand, TRUE)

\* number of lines of a page that are gallery entries or links of the file
Listed(key, fn) ==
  Cardinality({i \in 1..Len(docs[key].text) :
                 docs[key].text[i].t \in {"entry", "link"} /\ docs[key].text[i].fn = fn})

\* number of lines of a page that include the nomination
Included(key) ==
  Cardinality({i \in 1..Len(docs[key].text) :
                 docs[key].text[i] = [t |-> "incl", title |-> inp.key]})

\* C2: park writes no document when the nomination page holds no verified
\* result or more than one
C2_NoWriteUnlessOneVerified ==
  inp.verified # "one" => puts = 0 /\ docs = docs0

\* C3: a second invocation of step 1, 2 or 4 leaves its target document as the
\* first invocation left it, and the file is listed there at most once
C3_ListingStepsIdempotent ==
  (ret.op \in {"s1", "s2", "s4"} /\ ret.n >= 2) =>
    /\ docs[ret.target] = snap[ret.op]
    /\ docs[ret.target] = ret.before[ret.target]
    /\ Listed(ret.target, Promoted) <= 1

\* C4: when park of a passed candidate has completed, interrupted or not,
\* every document has the text one uninterrupted park gives it
C4_CrashRestartConsistent ==
  (/\ pc = "done" /\ calls["restart"] = 0
   /\ inp.kind = "fpc" /\ inp.verified = "one" /\ inp.featured = "yes") =>
    docs = park(NewCandidate(docs0, FALSE, TRUE, <<>>, inp.key, inp.kind)).docs

\* C5: a second invocation of addAssessments leaves the image page as the
\* first left it, and the annotation carries featured=1 exactly once
C5_AssessmentsMerged ==
  (ret.op = "s3" /\ ret.n >= 2) =>
    /\ docs[ret.target] = snap["s3"]
    /\ \A i \in 1..Len(docs[ret.target].text) :
         docs[ret.target].text[i].t = "ass" =>
           Cardinality({j \in 1..Len(docs[ret.target].text[i].params) :
              docs[ret.target].text[i].params[j] = [k |-> "featured", v |-> <<"1">>]}) = 1

\* C6: after two invocations of notifyNominator the talk page holds exactly
\* one promotion notice
C6_NotifiedOnce ==
  (ret.op = "s5" /\ ret.n >= 2) =>
    Cardinality({i \in 1..Len(docs[ret.target].text) :
                   docs[ret.target].text[i].t = "fpp"}) = 1

\* C7: after moveToLog, however often it ran, the log exists and includes the
\* nomination exactly once, and the active listing does not include it
C7_MovedToLogOnce ==
  ret.op = "s6b" =>
    /\ docs[LogPage].exists
    /\ Included(LogPage) = 1
    /\ Included(ret.target) = 0

\* C15: park writes no document for a candidate that is withdrawn or
\* FPX-flagged, whatever verified results its page carries; such a candidate
\* is never added to a featured listing
C15_FlaggedNeverParked ==
  inp.flag # "none" =>
    /\ docs = docs0 /\ puts = 0
    /\ pc \in {"idle", "done"}
    /\ Listed(ListPage, FileOf(inp.name)) = 0

\* park has run on an FPX-flagged nomination with one verified featured result
C15_Witness ==
  /\ inp.flag = "fpx" /\ inp.verified = "one" /\ inp.featured = "yes"
  /\ inp.kind = "fpc"
  /\ ret.op = "park" /\ pc = "done" /\ obj.halt = "return"
  /\ docs = docs0

(***************************************************************************)
(* SpecClose: closePage in auto mode, run after run, as the days pass      *)
(***************************************************************************)
\* the tallies drawn: failing, passing, unanimous, contested
CloseTallies == {<<0, 0>>, <<PassQuorum, 0>>, <<MaxVotes, 0>>, <<PassQuorum, 4>>}

\* tallies at the edges of the fifth-day rule: two supports, and the most
\* supports with one oppose
FifthDayEdges == {<<2, 0>>, <<MaxVotes, 1>>}

\* the last edit of the page: today, or a time that cannot be read (-1)
EditTimes == {0, -1}

\* the ages drawn: new, a day before the fifth day, a day before the ninth
CloseAges == {0, FifthDay - 1, DoneDays - 1}

\* the line a marker already on the page stands on
MarkerLine(marker, kind) ==
  CASE marker = "none"     -> <<>>
    [] marker = "ignore"   -> << <<[t |-> "ignore"]>> >>
    [] marker = "counted"  -> << <<[t |-> "counted", kind |-> kind, manual |-> TRUE,
                                    featured |-> "no"]>> >>
    [] marker = "reviewed" -> << <<Marker(kind, "no", FALSE)>> >>

InitClose ==
  \E kind \in Kinds, multi \in BOOLEAN, flag \in {"none", "withdraw", "fpx"},
     marker \in {"none", "ignore", "counted", "reviewed"},
     age \in CloseAges :
   \E tally \in CloseTallies \cup (IF flag = "none" /\ marker = "none" THEN FifthDayEdges ELSE {}),
      edit \in (IF flag # "none" /\ ~multi THEN EditTimes ELSE {0}) :
    LET key == TitleOf(FileOf(PlainName))
        second == IF multi
                  THEN << <<[t |-> "img", fn |-> FileOf(AltName), thumb |-> FALSE, px |-> 0]>> >>
                  ELSE <<>>
    IN
    /\ inp = [kind |-> kind, multi |-> multi, flag |-> flag, marker |-> marker,
              pro |-> tally[1], con |-> tally[2], key |-> key]
    /\ docs = (key :> Doc(NomText(FileOf(PlainName), kind, tally[1], tally[2],
                            second \o FlagLine(flag) \o MarkerLine(marker, kind))))
              @@ (FileOf(PlainName) :> Doc(ImageText("none")))
              @@ (LogPage :> NoDoc)
              @@ (ListPageName([kind |-> kind]) :>
                    Doc(<<[t |-> "incl", title |-> TitleOf(FileOf(OtherName))],
                          [t |-> "incl", title |-> key]>>))
    /\ docs0 = docs
    /\ G_Dry = FALSE /\ G_Auto = TRUE
    /\ daysOld = age /\ sinceEdit = edit
    /\ obj = NewCandidate(<<>>, FALSE, TRUE, <<>>, key, kind)
    /\ pc = "idle" /\ puts = 0 /\ ret = [op |-> "none"]
    /\ calls = [o \in {"closePage"} |-> 0]
    /\ snap = <<>> /\ crashes = 0 /\ NoBatch

\* one run of the bot closes the candidate: a new Candidate, closePage()
ClosePage ==
  /\ pc = "idle"
  /\ calls["closePage"] < MaxCalls
  /\ LET m  == [NewCandidate(docs, G_Dry, G_Auto, <<>>, inp.key, inp.kind)
                  EXCEPT !.daysOld = daysOld, !.sinceEdit = sinceEdit]
         m2 == closePage(m)
     IN /\ docs' = m2.docs
        /\ puts' = puts + m2.puts
        /\ sinceEdit' = IF inp.key \in m2.wrote THEN 0 ELSE sinceEdit
        /\ obj' = [m2 EXCEPT !.docs = <<>>]
        /\ ret' = [op |-> "closePage", n |-> calls["closePage"] + 1,
                   before |-> docs, result |-> m2.result, wrote |-> m2.wrote]
  /\ calls' = [calls EXCEPT !["closePage"] = @ + 1]
  /\ UNCHANGED <<G_Dry, G_Auto, G_Threads, G_Abort, run, daysOld, pc, inp, docs0, snap, crashes>>

\* a day passes without an edit of the nomination; an edit time that cannot
\* be read stays unreadable
Tick ==
  /\ daysOld < MaxDays
  /\ daysOld' = daysOld + 1
  /\ sinceEdit' = IF sinceEdit = -1 THEN -1 ELSE sinceEdit + 1
  /\ UNCHANGED <<docs, G_Dry, G_Auto, G_Threads, G_Abort, run, obj, pc, puts, ret, inp, docs0, calls,
                 snap, crashes>>

NextClose == ClosePage \/ Tick

SpecClose == InitClose /\ [][NextClose]_vars

\* a nomination text carries a marker that stops closing
Marked(text, kind) ==
  \/ HasIgnoreMarker(text)
  \/ HasCountedMarker([kind |-> kind], text)
  \/ HasReviewedMarker([kind |-> kind], text)

\* number of proposed-result annotations on a nomination text
Annotations(text) ==
  LET f == FlatText(text)
  IN Cardinality({i \in 1..Len(f) : f[i].t = "counted"})

\* C8 as stated: closePage writes nothing when the page carries an ignore,
\* proposed-result or reviewed marker
C8_NoWriteWhenMarked ==
  (ret.op = "closePage" /\ Marked(ret.before[inp.key].text, inp.kind)) =>
    ret.wrote = {} /\ docs = ret.before

\* C8: closePage leaves a nomination page that carries an ignore,
\* proposed-result or reviewed marker as it is (all it may still do is move a
\* withdrawn or FPX-flagged single-image nomination to the log), and after
\* any sequence of closePage runs the page holds at most one annotation more
\* than it started with
C8_ClosingSingleShot ==
  /\ (ret.op = "closePage" /\ Marked(ret.before[inp.key].text, inp.kind)) =>
       /\ docs[inp.key] = ret.before[inp.key]
       /\ ret.wrote \subseteq {LogPage, ListPageName([kind |-> inp.kind])}
       /\ ret.wrote # {} => inp.flag # "none" /\ ~inp.multi
  /\ Annotations(docs[inp.key].text) <= Annotations(docs0[inp.key].text) + 1

\* closePage ran again on the page it had annotated, and wrote nothing
C8_Witness ==
  /\ ret.op = "closePage" /\ ret.n >= 2 /\ ret.wrote = {}
  /\ inp.marker = "none"
  /\ Annotations(ret.before[inp.key].text) = 1
  /\ daysOld >= DoneDays

\* C13: closePage appends a result annotation to a nomination that is neither
\* withdrawn nor FPX-flagged only if it is at least nine days old, or at
\* least five days old with at most one support or with ten supports and no
\* oppose and at most one image; a nomination with several images younger
\* than nine days is never annotated, whatever its votes
C13_AnnotatedOnlyWhenDue ==
  ret.op = "closePage" =>
    /\ (inp.flag = "none" /\ inp.key \in ret.wrote) =>
          \/ obj.daysOld >= DoneDays
          \/ /\ obj.daysOld >= FifthDay
             /\ inp.pro <= 1 \/ (inp.pro >= FifthDayPro /\ inp.con = 0)
             /\ ~inp.multi
    /\ (inp.multi /\ obj.daysOld < DoneDays) =>
          /\ inp.key \notin ret.wrote
          /\ docs[inp.key] = ret.before[inp.key]

\* a unanimous single-image nomination was annotated between its fifth and
\* its ninth day
C13_Witness ==
  /\ ret.op = "closePage" /\ inp.key \in ret.wrote
  /\ inp.flag = "none" /\ ~inp.multi
  /\ inp.pro >= FifthDayPro /\ inp.con = 0
  /\ obj.daysOld >= FifthDay /\ obj.daysOld < DoneDays
  /\ Annotations(docs[inp.key].text) = Annotations(ret.before[inp.key].text) + 1

\* C14: closePage never annotates a withdrawn or FPX-flagged nomination with
\* at most one image; it moves it to the log only when a full day has passed
\* since its last edit, and writes no document when less has passed or the
\* time of the last edit cannot be read
C14_FlaggedWaitsADay ==
  (ret.op = "closePage" /\ inp.flag # "none" /\ ~inp.multi) =>
    /\ inp.key \notin ret.wrote
    /\ docs[inp.key] = docs0[inp.key]
    /\ ret.wrote # {} => obj.sinceEdit >= 1
    /\ obj.sinceEdit < 1 => ret.wrote = {} /\ docs = ret.before

\* a withdrawn nomination was moved to the log a day after its last edit
C14_Witness ==
  /\ ret.op = "closePage" /\ inp.flag = "withdraw" /\ ~inp.multi
  /\ obj.sinceEdit = 1
  /\ ret.wrote = {LogPage, ListPageName([kind |-> inp.kind])}
  /\ docs[LogPage].exists

(***************************************************************************)
(* SpecDry: the bot run with -dry, with and without -auto, any sequence of *)
(* -info, -close, -park and -test over a promotion and a delisting         *)
(* candidate                                                               *)
(***************************************************************************)
Shapes == {"missing", "open", "withdrawn", "closed", "verified"}

\* a nomination page in one of the stages of its life
NomPage(fn, kind, shape) ==
  LET prev == [t |-> "prev", pro |-> PassQuorum, con |-> 0, neu |-> 0,
               status |-> "featured"]
      page(extra) == Doc(NomText(fn, kind, PassQuorum, 0, extra))
  IN CASE shape = "missing"   -> NoDoc
       [] shape = "open"      -> page(<<>>)
       [] shape = "withdrawn" -> page(FlagLine("withdraw"))
       [] shape = "closed"    -> page(<< <<prev>> >> \o MarkerLine("counted", kind))
       [] shape = "verified"  -> page(<< <<prev>> >>
                                      \o MarkerLines("one", Marker(kind, "yes", FALSE)))

\* the two candidates of the run
DryCands ==
  << [key |-> TitleOf(FileOf(PlainName)), kind |-> "fpc"],
     [key |-> TitleOf(FileOf(OtherName)), kind |-> "delist"] >>

DryStore(shapes) ==
  (DryCands[1].key :> NomPage(FileOf(PlainName), "fpc", shapes[1]))
  @@ (DryCands[2].key :> NomPage(FileOf(OtherName), "delist", shapes[2]))
  @@ (FileOf(PlainName) :> Doc(ImageText("none")))
  @@ (FileOf(OtherName) :> Doc(ImageText("featured")))
  @@ (ListPage :> Doc(<<[t |-> "sec", cat |-> "Animals"], [t |-> "gopen"],
                        Entry(OtherName), [t |-> "gclose"]>>))
  @@ (CatPage(Category) :> Doc(<<[t |-> "gopen"], Entry(OtherName), [t |-> "gclose"]>>))
  @@ (MonthPage :> Doc(<<[t |-> "gopen"], Entry(OtherName), [t |-> "gclose"]>>))
  @@ (TalkPage(Nominator) :> Doc(<<>>))
  @@ (LogPage :> NoDoc)
  @@ (FpcListPage :> Doc(<<[t |-> "incl", title |-> DryCands[1].key]>>))
  @@ (DelistPage :> Doc(<<[t |-> "incl", title |-> DryCands[2].key]>>))

InitDry ==
  \E auto \in BOOLEAN, sa \in Shapes, sd \in Shapes, age \in {0, DoneDays} :
    /\ G_Dry = TRUE /\ G_Auto = auto
    /\ inp = [auto |-> auto, shapes |-> <<sa, sd>>]
    /\ docs = DryStore(<<sa, sd>>)
    /\ docs0 = docs
    /\ daysOld = age /\ sinceEdit = age
    /\ obj = NewCandidate(<<>>, TRUE, auto, <<>>, DryCands[1].key, "fpc")
    /\ pc = "idle" /\ puts = 0 /\ ret = [op |-> "none"]
    /\ calls = [o \in {"op"} |-> 0]
    /\ snap = <<>> /\ crashes = 0 /\ NoBatch

\* the Candidate checkCandidates hands to an operation; the operator's
\* answers are drawn although -dry never asks
DryCand(i, answer) ==
  [NewCandidate(docs, G_Dry, G_Auto, <<answer>>, DryCands[i].key, DryCands[i].kind)
     EXCEPT !.daysOld = daysOld, !.sinceEdit = sinceEdit]

\* the bookkeeping common to the operations: m2 is the candidate afterwards
DryOp(op, i, m2) ==
  /\ pc = "idle"
  /\ calls["op"] < MaxCalls
  /\ docs' = m2.docs
  /\ puts' = puts + m2.puts
  /\ obj' = [m2 EXCEPT !.docs = <<>>]
  /\ pc' = IF m2.halt = "exit" THEN "exited" ELSE "idle"
  /\ ret' = [op |-> op, cand |-> i, out |-> m2.out, halt |-> m2.halt,
             last |-> m2.last]
  /\ calls' = [calls EXCEPT !["op"] = @ + 1]
  /\ UNCHANGED <<G_Dry, G_Auto, G_Threads, G_Abort, run, daysOld, sinceEdit, inp, docs0, snap, crashes>>

Info  == \E i \in 1..2, a \in {"y", "n", "q"} : DryOp("info", i, printAllInfo(DryCand(i, a)))
Close == \E i \in 1..2, a \in {"y", "n", "q"} : DryOp("close", i, closePage(DryCand(i, a)))
Park  == \E i \in 1..2, a \in {"y", "n", "q"} : DryOp("park", i, park(DryCand(i, a)))
Test  == \E i \in 1..2, a \in {"y", "n", "q"} : DryOp("test", i, compareResultToCount(DryCand(i, a)))

NextDry == Info \/ Close \/ Park \/ Test

SpecDry == InitDry /\ [][NextDry]_vars

\* C10: in dry mode, whatever info, close, park and test operations have
\* run over the candidates, every document is as it was before the run
C10_DryRunWritesNothing ==
  G_Dry => docs = docs0 /\ puts = 0

\* a dry park has just gone through a candidate that park in auto mode
\* would write, and every commit was skipped
C10_Witness ==
  /\ G_Dry /\ ret.op = "park" /\ ret.last = "skipped"
  /\ park(NewCandidate(docs, FALSE, TRUE, <<>>, DryCands[ret.cand].key,
                       DryCands[ret.cand].kind)).puts > 0
  /\ docs = docs0

(***************************************************************************)
(* SpecMain: main and checkCandidates without threads.  One run of the bot *)
(* works through its arguments, for each argument through the listings     *)
(* and for each listing through its candidates.  run holds                 *)
(*   args      the arguments main still has to handle                      *)
(*   listings  the checkCandidates calls left for the current argument     *)
(*   todo      the candidates left in the current checkCandidates loop     *)
(*   started   the candidates whose check was started, in order, each with *)
(*             the value G_Abort had at that moment                        *)
(*   answers   what the operator will answer to the coming prompts         *)
(*   locked    the pages that are locked                                   *)
(***************************************************************************)
BName == <<"b">>                 \* File:b.jpg, a second promotion candidate

TestLogPage == <<"Commons:Featured_picture_candidates/Log/January_2009">>

\* the exceptions checkCandidates catches, fpc.py 992-995
CaughtMutantAll(e) == TRUE

Caught(e) == e \in {"NoPage", "LockedPage"}

\* the checkCandidates calls main makes for one argument, fpc.py 1224-1254
ListingsOf(arg, delist, fpc) ==
  LET d(check) == IF delist THEN <<[check |-> check, page |-> DelistPage, kind |-> "delist"]>>
                  ELSE <<>>
      f(check) == IF fpc THEN <<[check |-> check, page |-> FpcListPage, kind |-> "fpc"]>>
                  ELSE <<>>
  IN CASE arg = "-test"  -> IF fpc THEN <<[check |-> arg, page |-> TestLogPage, kind |-> "fpc"]>>
                            ELSE <<>>
       [] arg = "-close" -> d(arg) \o f(arg)
       [] arg = "-info"  -> d(arg) \o f(arg)
       [] arg = "-park"  -> d(arg) \o f(arg)

\* findCandidates(page_url, delist), fpc.py 940-960
findCandidates(d, page, kind) ==
  IF ~Exists(d, page) THEN <<>>
  ELSE LET cands == SelectSeq(d[page].text,
                      LAMBDA l : l.t = "incl" /\ l.title[1] = candPrefix[1])
       IN [i \in 1..Len(cands) |-> [key |-> cands[i].title, kind |-> kind]]

\* check(candidate), fpc.py 991
Check(check, m) ==
  CASE check = "-close" -> closePage(m)
    [] check = "-park"  -> park(m)
    [] check = "-info"  -> printAllInfo(m)
    [] check = "-test"  -> compareResultToCount(m)

MainShapes == {"missing", "withdrawn", "verified"}

\* the operator's answers: quit at once, after one write, never
AnswerScripts ==
  { <<"q">>, <<"y", "q">>,
    <<"y", "y", "y", "y", "y", "y", "y", "y", "y", "y", "y", "y">> }

MainArgs == { <<"-close">>, <<"-park">>, <<"-close", "-park">> }

MainStore(shapes, fault) ==
  LET ka == TitleOf(FileOf(PlainName))
      kb == TitleOf(FileOf(BName))
      ko == TitleOf(FileOf(OtherName))
      month == IF fault = "nogallery" THEN <<>>
               ELSE <<[t |-> "gopen"], Entry(OtherName), [t |-> "gclose"]>>
  IN (ka :> NomPage(FileOf(PlainName), "fpc", shapes[1]))
     @@ (kb :> NomPage(FileOf(BName), "fpc", shapes[2]))
     @@ (ko :> NomPage(FileOf(OtherName), "delist", shapes[3]))
     @@ (FileOf(PlainName) :> Doc(ImageText("none")))
     @@ (FileOf(BName) :> Doc(ImageText("none")))
     @@ (FileOf(OtherName) :> Doc(ImageText("featured")))
     @@ (ListPage :> Doc(<<[t |-> "sec", cat |-> "Animals"], [t |-> "gopen"],
                           Entry(OtherName), [t |-> "gclose"]>>))
     @@ (CatPage(Category) :> Doc(<<[t |-> "gopen"], Entry(OtherName), [t |-> "gclose"]>>))
     @@ (MonthPage :> Doc(month))
     @@ (TalkPage(Nominator) :> Doc(<<>>))
     @@ (LogPage :> NoDoc)
     @@ (FpcListPage :> Doc(<<[t |-> "incl", title |-> ka], [t |-> "incl", title |-> kb]>>))
     @@ (TestLogPage :> Doc(<<[t |-> "incl", title |-> ka], [t |-> "incl", title |-> kb]>>))
     @@ (DelistPage :> Doc(<<[t |-> "incl", title |-> ko]>>))

InitMain ==
  \E mode \in {<<"dry">>, <<"auto">>} \cup AnswerScripts, args \in MainArgs,
     sa \in MainShapes, sb \in MainShapes, so \in MainShapes,
     fault \in {"none", "nogallery", "locked"} :
    /\ G_Dry = (mode = <<"dry">>) /\ G_Auto = (mode = <<"auto">>)
    /\ G_Threads = FALSE /\ G_Abort = FALSE
    /\ inp = [mode |-> mode, args |-> args, shapes |-> <<sa, sb, so>>, fault |-> fault]
    /\ docs = MainStore(<<sa, sb, so>>, fault)
    /\ docs0 = docs
    /\ run = [op |-> "main", args |-> args, listings |-> <<>>, todo |-> <<>>,
              started |-> <<>>,
              answers |-> IF mode \in AnswerScripts THEN mode ELSE <<>>,
              locked |-> IF fault = "locked" THEN {LogPage, TalkPage(Nominator)} ELSE {}]
    /\ daysOld = DoneDays /\ sinceEdit = DoneDays
    /\ obj = NewCandidate(<<>>, G_Dry, G_Auto, <<>>, TitleOf(FileOf(PlainName)), "fpc")
    /\ pc = "main" /\ puts = 0 /\ ret = [op |-> "none"]
    /\ calls = <<>> /\ snap = docs /\ crashes = 0

\* main takes its next argument, fpc.py 1224-1254 (both listings are handled,
\* as when neither -fpc nor -delist is given)
MainArg ==
  /\ pc = "main" /\ run.listings = <<>> /\ run.args # <<>>
  /\ IF Head(run.args) = "-park" /\ G_Threads /\ G_Auto
     THEN pc' = "exited" /\ run' = [run EXCEPT !.args = Tail(@)]
     ELSE /\ pc' = "main"
          /\ run' = [run EXCEPT !.args = Tail(@),
                                !.listings = ListingsOf(Head(run.args), TRUE, TRUE)]
  /\ UNCHANGED <<docs, G_Dry, G_Auto, G_Threads, G_Abort, daysOld, sinceEdit,
                 obj, puts, ret, inp, docs0, calls, snap, crashes>>

\* main has handled every argument
MainEnd ==
  /\ pc = "main" /\ run.listings = <<>> /\ run.args = <<>>
  /\ pc' = "finished"
  /\ UNCHANGED <<docs, G_Dry, G_Auto, G_Threads, G_Abort, run, daysOld, sinceEdit,
                 obj, puts, ret, inp, docs0, calls, snap, crashes>>

\* checkCandidates is entered: the candidates of the listing, fpc.py 970-977
CheckCandidates ==
  /\ pc = "main" /\ run.listings # <<>>
  /\ LET l    == Head(run.listings)
         todo == [i \in 1..Len(findCandidates(docs, l.page, l.kind)) |->
                    findCandidates(docs, l.page, l.kind)[i] @@ [check |-> l.check]]
     IN /\ run' = [run EXCEPT !.listings = Tail(@), !.todo = todo]
        /\ pc' = IF todo = <<>> THEN "main" ELSE "loop"
  /\ UNCHANGED <<docs, G_Dry, G_Auto, G_Threads, G_Abort, daysOld, sinceEdit,
                 obj, puts, ret, inp, docs0, calls, snap, crashes>>

\* the loop takes its next candidate and calls check(candidate)
StartCandidate ==
  /\ pc = "loop"
  /\ run' = [run EXCEPT !.started =
               Append(@, [key |-> Head(run.todo).key, check |-> Head(run.todo).check,
                          abort |-> G_Abort])]
  /\ snap' = docs
  /\ pc' = "working"
  /\ UNCHANGED <<docs, G_Dry, G_Auto, G_Threads, G_Abort, daysOld, sinceEdit,
                 obj, puts, ret, inp, docs0, calls, crashes>>

\* what checkCandidates does when check(candidate) has ended as m2: the
\* except clauses and the test of G_Abort, fpc.py 992-999
AfterCheck(c, m2) ==
  LET rest == IF G_Abort THEN <<>> ELSE Tail(run.todo)
  IN /\ docs' = m2.docs
     /\ puts' = puts + m2.puts
     /\ obj' = [m2 EXCEPT !.docs = <<>>]
     /\ ret' = [op |-> c.check, key |-> c.key, halt |-> m2.halt,
                last |-> m2.last, wrote |-> m2.wrote,
                left |-> Len(run.todo) - 1 + Len(run.listings) + Len(run.args)]
     /\ IF m2.halt \in {"none", "return"} \/ Caught(m2.halt)
        THEN /\ run' = [run EXCEPT !.todo = rest, !.answers = m2.answers]
             /\ pc' = IF rest = <<>> THEN "main" ELSE "loop"
        ELSE \* SystemExit or another exception leaves checkCandidates and main
             /\ run' = [run EXCEPT !.answers = m2.answers]
             /\ pc' = IF m2.halt = "exit" THEN "exited" ELSE "crashed"

\* check(candidate) runs to its end, fpc.py 991-999
FinishCandidate ==
  /\ pc = "working"
  /\ AfterCheck(Head(run.todo),
                Check(Head(run.todo).check,
                      [NewCandidate(docs, G_Dry, G_Auto, run.answers,
                                    Head(run.todo).key, Head(run.todo).kind)
                         EXCEPT !.daysOld = daysOld, !.sinceEdit = sinceEdit,
                                !.locked = run.locked]))
  /\ UNCHANGED <<G_Dry, G_Auto, G_Threads, G_Abort, daysOld, sinceEdit, inp,
                 docs0, calls, snap, crashes>>

\* SIGINT arrives while a candidate is being processed, fpc.py 1259-1264
Interrupt ==
  /\ pc = "working" /\ ~G_Abort
  /\ G_Abort' = TRUE
  /\ UNCHANGED <<docs, G_Dry, G_Auto, G_Threads, run, daysOld, sinceEdit,
                 obj, pc, puts, ret, inp, docs0, calls, snap, crashes>>

NextMain ==
  \/ MainArg \/ MainEnd \/ CheckCandidates \/ StartCandidate \/ FinishCandidate
  \/ Interrupt

SpecMain == InitMain /\ [][NextMain]_vars

\* C11: when the operator has answered quit, the run is over: the process
\* has exited, the store is as the quitting commit found it (the writes made
\* before it, for this and for earlier candidates, are in place), and the
\* candidate that was being processed is the last one ever started
C11_QuitStopsTheBatch ==
  (ret.op # "none" /\ ret.halt = "exit") =>
    /\ pc = "exited"
    /\ ret.last = "aborted"
    /\ \A k \in DOMAIN docs : k \notin ret.wrote => docs[k] = snap[k]
    /\ \A k \in ret.wrote : docs[k] # snap[k]
    /\ Last(run.started).key = ret.key

\* the operator accepted the first write and quit at the second: the run has
\* exited with a write in place, with steps of this candidate and further
\* candidates left undone
C11_Witness ==
  /\ pc = "exited" /\ ret.halt = "exit" /\ ret.op = "-park"
  /\ ret.wrote # {} /\ puts > 0
  /\ ret.left > 0

\* C16 as stated: a failure while one candidate is processed (a missing
\* page, a locked page or any other error) never ends the batch; the
\* candidates that remain are still processed
C16_FailuresNeverAbortTheBatch ==
  (ret.op # "none" /\ ret.halt \notin {"none", "return", "exit"}) =>
    pc # "crashed"

\* C17 as stated: once SIGINT has set G_Abort, the candidate being processed
\* is finished and no other candidate is started, in this listing or in a
\* later one
C17_NoStartAfterAbort ==
  \A i \in 1..Len(run.started) : ~run.started[i].abort

(***************************************************************************)
(* SpecStatus: -info on a candidate of any age, as the days pass           *)
(***************************************************************************)
\* the fifth-day rule as closePage applies it, fpc.py 193-194
fifthDayOf(m) == IF imageCount(m) > 1 THEN FALSE ELSE rulesOfFifthDay(m)

\* what -info shows of the candidate m2 that printAllInfo has gone through;
\* isDone() is what its statusString() consults
InfoOf(m2) ==
  /\ obj' = [m2 EXCEPT !.docs = <<>>]
  /\ ret' = [op |-> "printAllInfo", age |-> daysOld, out |-> m2.out,
             isDone |-> isDone(m2), fifthDay |-> fifthDayOf(m2),
             pro |-> m2.pro, con |-> m2.con, images |-> imageCount(m2)]

\* one run of the bot with -info: a new Candidate, printAllInfo()
PrintAllInfo ==
  /\ pc = "idle"
  /\ InfoOf(printAllInfo([NewCandidate(docs, G_Dry, G_Auto, <<>>, inp.key, inp.kind)
                            EXCEPT !.daysOld = daysOld, !.sinceEdit = sinceEdit]))
  /\ UNCHANGED <<docs, G_Dry, G_Auto, G_Threads, G_Abort, run, daysOld, sinceEdit, pc, puts,
                 inp, docs0, calls, snap, crashes>>

NextStatus == PrintAllInfo \/ Tick

SpecStatus == InitClose /\ [][NextStatus]_vars

\* C12 as stated: isDone() is true exactly when the nomination is nine days
\* old or the fifth-day rule applies to it (five days old, at most one
\* support or at least ten supports and no oppose, at most one image), so
\* the status is never 'Active' for a candidate the fifth-day rule closes
C12_IsDoneCoversFifthDay ==
  ret.op = "printAllInfo" =>
    LET fifth == /\ ret.age >= FifthDay
                 /\ ret.pro <= 1 \/ (ret.pro >= FifthDayPro /\ ret.con = 0)
                 /\ ret.images <= 1
    IN /\ ret.isDone <=> (ret.age >= DoneDays \/ fifth)
       /\ fifth => ret.out # "Active"

(***************************************************************************)
(* SpecThreads: main and checkCandidates with -threads.  The main thread   *)
(* starts a ThreadCheckCandidate per candidate and never joins it; the     *)
(* workers run check(candidate) on the shared store.  A worker that moves  *)
(* a withdrawn nomination to the log makes its four store calls (get and   *)
(* put of the log, get and put of the candidate list) one at a time.  run  *)
(* holds, besides the fields of SpecMain,                                  *)
(*   limit     config.max_external_links                                   *)
(*   workers   the threads started, in order: the candidate, the check,    *)
(*             where the thread is, the text it has read and not yet       *)
(*             written back, and threading.activeCount() at its start      *)
(*   prompts   the prompts issued by workers                               *)
(***************************************************************************)
ThreadShapes == {"missing", "open", "withdrawn"}

ThreadArgs == { <<"-close">>, <<"-park">>, <<"-info">>, <<"-close", "-park">> }

Limits == 2..MaxLimit

InitThreads ==
  \E mode \in {"dry", "auto", "ask"}, args \in ThreadArgs,
     sa \in ThreadShapes, sb \in ThreadShapes, so \in ThreadShapes,
     limit \in Limits :
    /\ G_Dry = (mode = "dry") /\ G_Auto = (mode = "auto")
    /\ G_Threads = TRUE /\ G_Abort = FALSE
    /\ inp = [mode |-> mode, args |-> args, shapes |-> <<sa, sb, so>>, limit |-> limit]
    /\ docs = MainStore(<<sa, sb, so>>, "none")
    /\ docs0 = docs
    /\ run = [op |-> "main", args |-> args, listings |-> <<>>, todo |-> <<>>,
              started |-> <<>>, answers |-> <<>>, locked |-> {},
              limit |-> limit, workers |-> <<>>, prompts |-> 0]
    /\ daysOld = DoneDays /\ sinceEdit = DoneDays
    /\ obj = NewCandidate(<<>>, G_Dry, G_Auto, <<>>, TitleOf(FileOf(PlainName)), "fpc")
    /\ pc = "start" /\ puts = 0 /\ ret = [op |-> "none"]
    /\ calls = <<>> /\ snap = docs /\ crashes = 0

InteractiveThreadsMutantNever == FALSE

\* main, fpc.py 1212: threads asked for without -dry or -auto
InteractiveThreads == G_Threads /\ (~G_Dry /\ ~G_Auto)

\* main up to its loop over the arguments, fpc.py 1211-1222
MainStart ==
  /\ pc = "start"
  /\ pc' = IF InteractiveThreads THEN "exited" ELSE "main"
  /\ UNCHANGED <<docs, G_Dry, G_Auto, G_Threads, G_Abort, run, daysOld, sinceEdit,
                 obj, puts, ret, inp, docs0, calls, snap, crashes>>

\* the threads that have been started and have not ended
LiveWorkers == {i \in 1..Len(run.workers) : run.workers[i].pc \notin {"done", "died"}}

\* threading.activeCount(): the main thread and the live workers
activeCount == 1 + Cardinality(LiveWorkers)

MayStartMutantAlways(n, limit) == TRUE

\* checkCandidates, fpc.py 985-986: the loop waits while this is false
MayStart(n, limit) == ~(n >= limit)

\* checkCandidates with threads, fpc.py 979-999: the wait is over, the
\* thread of the next candidate is started, then G_Abort is tested
StartThread ==
  /\ pc = "loop"
  /\ MayStart(activeCount, run.limit)
  /\ LET c    == Head(run.todo)
         rest == IF G_Abort THEN <<>> ELSE Tail(run.todo)
     IN /\ run' = [run EXCEPT !.todo = rest,
                              !.workers = Append(@, [key |-> c.key, kind |-> c.kind,
                                                     check |-> c.check, pc |-> "begin",
                                                     old |-> NoDoc, live |-> activeCount])]
        /\ pc' = IF rest = <<>> THEN "main" ELSE "loop"
  /\ UNCHANGED <<docs, G_Dry, G_Auto, G_Threads, G_Abort, daysOld, sinceEdit,
                 obj, puts, ret, inp, docs0, calls, snap, crashes>>

\* the Candidate of a worker, on the store d
WCand(w, d) ==
  [NewCandidate(d, G_Dry, G_Auto, <<>>, w.key, w.kind)
     EXCEPT !.daysOld = daysOld, !.sinceEdit = sinceEdit]

\* closePage, fpc.py 173-189: the nomination goes to moveToLog
viaMoveToLog(m) ==
  /\ Exists(m.docs, m.key)
  /\ (isWithdrawn(m) \/ isFPX(m)) /\ imageCount(m) <= 1
  /\ oldEnough(m)

\* the bookkeeping of a worker step: m2 is the candidate after the step,
\* page the shared page the step may have written
WorkerStep(i, m2, pages, next) ==
  /\ docs' = [k \in DOMAIN docs |-> IF k \in pages \cap m2.wrote THEN m2.docs[k] ELSE docs[k]]
  /\ puts' = puts + m2.puts
  /\ run' = [run EXCEPT !.workers[i].pc = IF m2.halt \in {"none", "return"}
                                          THEN next ELSE "died",
                        !.prompts = @ + m2.prompts]
  /\ UNCHANGED <<G_Dry, G_Auto, G_Threads, G_Abort, daysOld, sinceEdit,
                 obj, pc, ret, inp, docs0, calls, snap, crashes>>

\* ThreadCheckCandidate.run, fpc.py 44-45: check(candidate) up to the first
\* get of a shared page; a check that touches no shared page twice runs to
\* its end
WorkerBegin ==
  \E i \in 1..Len(run.workers) :
    /\ run.workers[i].pc = "begin"
    /\ LET w == run.workers[i]
           m == WCand(w, docs)
       IN IF w.check = "-close" /\ viaMoveToLog(m)
          THEN /\ run' = [run EXCEPT !.workers[i].pc = "logput",
                                     !.workers[i].old = docs[LogPage]]
               /\ UNCHANGED <<docs, G_Dry, G_Auto, G_Threads, G_Abort, daysOld, sinceEdit,
                              obj, pc, puts, ret, inp, docs0, calls, snap, crashes>>
          ELSE WorkerStep(i, Check(w.check, m), DOMAIN docs, "done")

\* moveToLog, fpc.py 687-693: the log is extended from the text read before
WorkerLogPut ==
  \E i \in 1..Len(run.workers) :
    /\ run.workers[i].pc = "logput"
    /\ LET w == run.workers[i]
           m == WCand(w, [docs EXCEPT ![LogPage] = w.old])
       IN WorkerStep(i, moveToLogAdd(m), {LogPage}, "listget")

\* moveToLog, fpc.py 696-697: the candidate list is read
WorkerListGet ==
  \E i \in 1..Len(run.workers) :
    /\ run.workers[i].pc = "listget"
    /\ LET w == run.workers[i]
           l == ListPageName(w)
       IN run' = [run EXCEPT !.workers[i].pc = IF Exists(docs, l) THEN "listput" ELSE "died",
                             !.workers[i].old = docs[l]]
    /\ UNCHANGED <<docs, G_Dry, G_Auto, G_Threads, G_Abort, daysOld, sinceEdit,
                   obj, pc, puts, ret, inp, docs0, calls, snap, crashes>>

\* moveToLog, fpc.py 698-703: the list without the nomination is written
WorkerListPut ==
  \E i \in 1..Len(run.workers) :
    /\ run.workers[i].pc = "listput"
    /\ LET w == run.workers[i]
           m == WCand(w, [docs EXCEPT ![ListPageName(w)] = w.old])
       IN WorkerStep(i, moveToLogRemove(m), {ListPageName(w)}, "done")

NextThreads ==
  \/ MainStart \/ MainArg \/ MainEnd \/ CheckCandidates \/ StartThread
  \/ WorkerBegin \/ WorkerLogPut \/ WorkerListGet \/ WorkerListPut

SpecThreads == InitThreads /\ [][NextThreads]_vars

\* every thread that was started has ended and main has returned
AllDone == pc = "finished" /\ LiveWorkers = {} /\ run.workers # <<>>

\* the orders in which n candidates can be processed
Orders(n) == {f \in [1..n -> 1..n] : \A i, j \in 1..n : f[i] = f[j] => i = j}

RECURSIVE SeqCheck(_, _)
\* the store after check(candidate) has run on the candidates ws one after
\* the other, fpc.py 991
SeqCheck(d, ws) ==
  IF ws = <<>> THEN d
  ELSE SeqCheck(Check(Head(ws).check, WCand(Head(ws), d)).docs, Tail(ws))

\* C18 as stated: when -close runs with threads in auto mode no update is
\* lost: whatever the interleaving of the workers' gets and puts, every
\* document ends with the text that closing the same candidates one after
\* the other, in some order, gives it
C18_NoLostUpdate ==
  (AllDone /\ G_Auto /\ inp.args = <<"-close">>) =>
    \E f \in Orders(Len(run.workers)) :
      docs = SeqCheck(docs0, [i \in 1..Len(run.workers) |-> run.workers[f[i]]])

\* the operations of the command line
ArgSet == {inp.args[i] : i \in 1..Len(inp.args)}

\* C19 as stated: with threads and neither -dry nor -auto the run ends
\* before a candidate is processed and no worker ever prompts; with threads
\* and -auto, parking is refused before any candidate is processed
C19_NoCandidateBeforeRefusal ==
  /\ (G_Threads /\ ~G_Dry /\ ~G_Auto) =>
       run.workers = <<>> /\ run.prompts = 0 /\ docs = docs0 /\ pc \in {"start", "exited"}
  /\ run.prompts = 0
  /\ (G_Auto /\ "-park" \in ArgSet) => run.workers = <<>> /\ docs = docs0

\* C19: with threads and neither -dry nor -auto the run ends before a
\* candidate is processed and no worker ever prompts; with threads and
\* -auto no candidate is ever parked: the run ends when main reaches -park,
\* after the operations given before it have had their workers started
C19_NoPromptNoThreadedParking ==
  /\ (G_Threads /\ ~G_Dry /\ ~G_Auto) =>
       run.workers = <<>> /\ run.prompts = 0 /\ docs = docs0 /\ pc \in {"start", "exited"}
  /\ run.prompts = 0
  /\ G_Auto => \A i \in 1..Len(run.workers) : run.workers[i].check # "-park"
  /\ (G_Auto /\ "-park" \in ArgSet) => pc # "finished"
  /\ (G_Auto /\ pc = "exited") => run.args = <<>> /\ run.listings = <<>> /\ run.todo = <<>>

\* -close -park with threads in auto mode: the run has ended at -park, the
\* workers of -close were started before
C19_Witness ==
  /\ G_Auto /\ inp.args = <<"-close", "-park">>
  /\ pc = "exited"
  /\ Len(run.workers) = 3
  /\ \A i \in 1..3 : run.workers[i].check = "-close"

\* C20: with threads checkCandidates starts one worker per candidate, starts
\* it only while threading.activeCount() is below the limit, and the live
\* workers never outnumber the limit
C20_WorkersBounded ==
  /\ activeCount <= run.limit
  /\ \A i \in 1..Len(run.workers) : run.workers[i].live < run.limit
  /\ \A i, j \in 1..Len(run.workers) :
       (run.workers[i].key = run.workers[j].key
        /\ run.workers[i].check = run.workers[j].check) => i = j
  /\ pc = "finished" =>
       Len(run.workers) = Len(inp.args) * (Len(docs0[DelistPage].text) + Len(docs0[FpcListPage].text))

\* two workers are running, the limit is three, and the next candidate waits
C20_Witness ==
  /\ run.limit = 3 /\ Cardinality(LiveWorkers) = 2
  /\ pc = "loop" /\ run.todo # <<>>
  /\ ~MayStart(activeCount, run.limit)

(***************************************************************************)
(* SpecVotes: countVotes on a nomination whose text is any short sequence  *)
(* of votes and of the opening and closing marks of the spans that         *)
(* filter_content removes                                                  *)
(***************************************************************************)
VoteTokens ==
  { [t |-> "vote", v |-> "support", n |-> 1], [t |-> "vote", v |-> "oppose", n |-> 1],
    [t |-> "so"], [t |-> "sc"],       \* <s> </s>
    [t |-> "no"], [t |-> "nc"],       \* <nowiki> </nowiki>
    [t |-> "ino"], [t |-> "inc"],     \* {{ImageNote|..}} {{ImageNoteEnd}}
    [t |-> "co"], [t |-> "cc"] }      \* <!-- -->

VoteTexts == UNION {[1..n -> VoteTokens] : n \in 1..MaxText}

InitVotes ==
  \E text \in VoteTexts :
    LET key == TitleOf(FileOf(PlainName)) IN
    /\ inp = [text |-> text, key |-> key, kind |-> "fpc"]
    /\ docs = (key :> Doc(<<text>>))
    /\ docs0 = docs
    /\ G_Dry = FALSE /\ G_Auto = TRUE
    /\ daysOld = 0 /\ sinceEdit = 0
    /\ obj = NewCandidate(<<>>, FALSE, TRUE, <<>>, key, "fpc")
    /\ pc = "idle" /\ puts = 0 /\ ret = [op |-> "none"]
    /\ calls = <<>> /\ snap = <<>> /\ crashes = 0 /\ NoBatch

\* what countVotes has left in the candidate m2
TalliesOf(m2) ==
  /\ obj' = [m2 EXCEPT !.docs = <<>>]
  /\ ret' = [op |-> "countVotes", pro |-> m2.pro, con |-> m2.con, neu |-> m2.neu]

\* countVotes() on a new Candidate
CountVotesCall ==
  /\ pc = "idle"
  /\ TalliesOf(countVotes(NewCandidate(docs, G_Dry, G_Auto, <<>>, inp.key, inp.kind)))
  /\ pc' = "done"
  /\ UNCHANGED <<docs, G_Dry, G_Auto, G_Threads, G_Abort, run, daysOld, sinceEdit, puts, inp,
                 docs0, calls, snap, crashes>>

NextVotes == CountVotesCall

SpecVotes == InitVotes /\ [][NextVotes]_vars

RECURSIVE RawFrom(_, _)
\* the positions of a text that the wiki reads as raw text: from <!-- to the
\* next -->, from <nowiki> to the next </nowiki>, whichever opens first
RawFrom(s, i) ==
  IF i > Len(s) THEN {}
  ELSE LET c == IF s[i].t = "co" THEN "cc" ELSE IF s[i].t = "no" THEN "nc" ELSE "x"
           e == IF c = "x" THEN 0 ELSE FirstOf(s, c, i + 1)
       IN IF e > 0 THEN (i..e) \cup RawFrom(s, e + 1) ELSE RawFrom(s, i + 1)

\* the text with its raw positions blanked
Cooked(s) == [i \in 1..Len(s) |-> IF i \in RawFrom(s, 1) THEN [t |-> "x"] ELSE s[i]]

RECURSIVE MatchOf(_, _, _)
\* the </s> that closes the <s> before position i, depth <s> being open; 0 if none
MatchOf(s, i, depth) ==
  IF i > Len(s) THEN 0
  ELSE IF s[i].t = "sc" THEN (IF depth = 1 THEN i ELSE MatchOf(s, i + 1, depth - 1))
  ELSE IF s[i].t = "so" THEN MatchOf(s, i + 1, depth + 1)
  ELSE MatchOf(s, i + 1, depth)

\* the positions of the votes the wiki shows as votes in force: not raw
\* text, not inside a closed <s>, not between an image note and its end
ActiveVotes(s, v) ==
  LET c == Cooked(s)
  IN {i \in 1..Len(s) :
        /\ c[i].t = "vote" /\ c[i].v = v
        /\ ~\E j \in 1..(i - 1) : c[j].t = "so" /\ MatchOf(c, j + 1, 1) > i
        /\ ~\E j \in 1..(i - 1) : c[j].t = "ino" /\ FirstOf(c, "inc", j + 1) > i}

\* C21 as stated: countVotes counts no vote that stands inside a strike-out,
\* a no-wiki span, an image note or a comment; a text whose votes are all
\* struck out gives 0/0/0, two supports and an oppose give 2/1/0
C21_OnlyActiveVotesCounted ==
  ret.op = "countVotes" =>
    /\ ret.pro <= Cardinality(ActiveVotes(inp.text, "support"))
    /\ ret.con <= Cardinality(ActiveVotes(inp.text, "oppose"))
    /\ ret.neu = 0

(***************************************************************************)
(* SpecImages: imageCount and isIgnored on a nomination that shows any     *)
(* short list of image links                                               *)
(***************************************************************************)
\* [[File:x.jpg]], [[File:x.jpg|caption]], |thumb, |100px, |150px, |151px,
\* |thumb|100px
ImageLinks ==
  { [t |-> "img", fn |-> FileOf(PlainName), thumb |-> FALSE, px |-> 0, bare |-> TRUE],
    [t |-> "img", fn |-> FileOf(PlainName), thumb |-> FALSE, px |-> 0, bare |-> FALSE],
    [t |-> "img", fn |-> FileOf(PlainName), thumb |-> TRUE, px |-> 0, bare |-> FALSE],
    [t |-> "img", fn |-> FileOf(PlainName), thumb |-> FALSE, px |-> 100, bare |-> FALSE],
    [t |-> "img", fn |-> FileOf(PlainName), thumb |-> FALSE, px |-> SmallImagePx, bare |-> FALSE],
    [t |-> "img", fn |-> FileOf(PlainName), thumb |-> FALSE, px |-> SmallImagePx + 1, bare |-> FALSE],
    [t |-> "img", fn |-> FileOf(PlainName), thumb |-> TRUE, px |-> 100, bare |-> FALSE] }

InitImages ==
  \E n \in 1..MaxImages : \E links \in [1..n -> ImageLinks] :
    LET key == TitleOf(FileOf(PlainName)) IN
    /\ inp = [links |-> links, key |-> key, kind |-> "fpc"]
    /\ docs = (key :> Doc(<< <<[t |-> "head", suf |-> <<>>]>> >>
                          \o [i \in 1..n |-> <<links[i]>>]))
    /\ docs0 = docs
    /\ G_Dry = FALSE /\ G_Auto = TRUE
    /\ daysOld = 0 /\ sinceEdit = 0
    /\ obj = NewCandidate(<<>>, FALSE, TRUE, <<>>, key, "fpc")
    /\ pc = "idle" /\ puts = 0 /\ ret = [op |-> "none"]
    /\ calls = <<>> /\ snap = <<>> /\ crashes = 0 /\ NoBatch

\* imageCount() and isIgnored() on a new Candidate
ImageCountCall ==
  /\ pc = "idle"
  /\ LET m == NewCandidate(docs, G_Dry, G_Auto, <<>>, inp.key, inp.kind)
     IN ret' = [op |-> "imageCount", count |-> imageCount(m), isIgnored |-> isIgnored(m)]
  /\ pc' = "done"
  /\ UNCHANGED <<docs, G_Dry, G_Auto, G_Threads, G_Abort, run, daysOld, sinceEdit, obj, puts,
                 inp, docs0, calls, snap, crashes>>

NextImages == ImageCountCall

SpecImages == InitImages /\ [][NextImages]_vars

\* the links of the draw that are thumbnails or at most 150 pixels wide
SmallLinks ==
  {i \in 1..Len(inp.links) :
     inp.links[i].thumb \/ (inp.links[i].px > 0 /\ inp.links[i].px <= SmallImagePx)}

\* C22 as stated: with one image link imageCount is 1 whatever its size or
\* thumbnail mark; with two or more it is the number of links less those
\* that are thumbnails or at most 150 pixels wide, each taken off once;
\* isIgnored says whether the count exceeds one
C22_ImageCountDiscountsSmall ==
  ret.op = "imageCount" =>
    /\ Len(inp.links) = 1 => ret.count = 1
    /\ Len(inp.links) >= 2 => ret.count = Len(inp.links) - Cardinality(SmallLinks)
    /\ ret.isIgnored <=> ret.count > 1

\* C23: statusString is 'Ignored' when more than one image is displayed,
\* withdrawn or not; else 'Withdrawn' when withdrawn; else 'Active' when
\* isDone() is false; else the passed label when isPassed() holds and the
\* failed label when it does not
C23_StatusPriority ==
  ret.op = "printAllInfo" =>
    ret.out =
      (IF inp.multi THEN "Ignored"
       ELSE IF inp.flag = "withdraw" THEN "Withdrawn"
       ELSE IF ~ret.isDone THEN "Active"
       ELSE IF inp.pro >= PassQuorum /\ inp.pro >= 2 * inp.con
            THEN (IF inp.kind = "fpc" THEN "featured" ELSE "delisted")
            ELSE (IF inp.kind = "fpc" THEN "not featured" ELSE "not delisted"))

\* a withdrawn nomination with two images is reported as ignored
C23_Witness ==
  /\ ret.op = "printAllInfo" /\ inp.multi /\ inp.flag = "withdraw"
  /\ ret.out = "Ignored" /\ ret.images = 2

(***************************************************************************)
(* SpecMemo: countVotes called again and again on one Candidate object     *)
(* while voters edit the nomination page                                   *)
(***************************************************************************)
\* the nomination page with pro supports, con opposes and neu neutrals
MemoPage(kind, pro, con, neu) ==
  Doc(NomText(FileOf(PlainName), kind, pro, con,
              << <<[t |-> "vote", v |-> "neutral", n |-> neu]>> >>))

InitMemo ==
  \E kind \in Kinds, pro \in 0..MaxTally, con \in 0..MaxTally, neu \in 0..1 :
    LET key == TitleOf(FileOf(PlainName)) IN
    /\ inp = [key |-> key, kind |-> kind]
    /\ docs = (key :> MemoPage(kind, pro, con, neu))
    /\ docs0 = docs
    /\ G_Dry = FALSE /\ G_Auto = TRUE
    /\ daysOld = 0 /\ sinceEdit = 0
    /\ obj = NewCandidate(<<>>, FALSE, TRUE, <<>>, key, kind)
    /\ pc = "idle" /\ puts = 0 /\ ret = [op |-> "none"]
    /\ calls = [countVotes |-> 0, edit |-> 0]
    /\ snap = <<>> /\ crashes = 0 /\ NoBatch

\* what a countVotes call has left in the candidate m2; the tallies of the
\* first call are kept in snap
MemoOf(m2) ==
  /\ obj' = [m2 EXCEPT !.docs = <<>>]
  /\ ret' = [op |-> "countVotes", n |-> calls.countVotes + 1,
             pro |-> m2.pro, con |-> m2.con, neu |-> m2.neu, halt |-> m2.halt]
  /\ snap' = IF calls.countVotes = 0 THEN <<m2.pro, m2.con, m2.neu>> ELSE snap

\* countVotes() on the Candidate the bot holds
CountVotesAgain ==
  /\ calls.countVotes < MaxCalls
  /\ MemoOf(countVotes([obj EXCEPT !.docs = docs]))
  /\ calls' = [calls EXCEPT !.countVotes = @ + 1]
  /\ UNCHANGED <<docs, G_Dry, G_Auto, G_Threads, G_Abort, run, daysOld, sinceEdit, pc, puts,
                 inp, docs0, crashes>>

\* a voter changes the votes on the page
EditVotes ==
  /\ calls.edit < MaxEdits
  /\ \E pro \in 0..MaxTally, con \in 0..MaxTally, neu \in 0..1 :
       /\ docs' = [docs EXCEPT ![inp.key] = MemoPage(inp.kind, pro, con, neu)]
       /\ docs' # docs
  /\ calls' = [calls EXCEPT !.edit = @ + 1]
  /\ UNCHANGED <<G_Dry, G_Auto, G_Threads, G_Abort, run, daysOld, sinceEdit, obj, pc, puts,
                 ret, inp, docs0, snap, crashes>>

NextMemo == CountVotesAgain \/ EditVotes

SpecMemo == InitMemo /\ [][NextMemo]_vars

\* the tallies a fresh count of the page as it is now would give
FreshTallies ==
  LET m == countVotes(NewCandidate(docs, G_Dry, G_Auto, <<>>, inp.key, inp.kind))
  IN <<m.pro, m.con, m.neu>>

\* C24: after the first countVotes on a candidate every later call gives
\* the tallies of the first, whatever has become of the page since
C24_VotesMemoized ==
  (ret.op = "countVotes" /\ ret.n >= 2) =>
    /\ <<ret.pro, ret.con, ret.neu>> = snap
    /\ <<obj.pro, obj.con, obj.neu>> = snap
    /\ obj.votesCounted

\* countVotes was called again after an edit that changed every tally
C24_Witness ==
  /\ ret.op = "countVotes" /\ ret.n >= 2
  /\ calls.edit >= 1
  /\ FreshTallies[1] # ret.pro /\ FreshTallies[2] # ret.con /\ FreshTallies[3] # ret.neu

(***************************************************************************)
(* The annotation closePage appends, read back by existingResult            *)
(***************************************************************************)
\* existingResult() of a new Candidate on the documents as they are now
ResultsNow ==
  existingResult(NewCandidate(docs, G_Dry, G_Auto, <<>>, inp.key, inp.kind))

\* C25: the annotation getResultString produces for a single-image
\* candidate, read back by existingResult, gives exactly one record, with
\* the tallies counted and the outcome of isPassed
C25_ResultRoundTrip ==
  (/\ ret.op = "closePage" /\ inp.key \in ret.wrote
   /\ ~inp.multi /\ inp.marker = "none") =>
    /\ Len(ResultsNow) = 1
    /\ ResultsNow[1].pro = obj.pro
    /\ ResultsNow[1].con = obj.con
    /\ ResultsNow[1].neu = obj.neu
    /\ (ResultsNow[1].status = "featured") = isPassed(obj)

(***************************************************************************)
(* The lifecycle of a nomination: annotated, then parked                   *)
(***************************************************************************)
\* the nominations of the store of main
NomKeys == {TitleOf(FileOf(PlainName)), TitleOf(FileOf(BName)), TitleOf(FileOf(OtherName))}

\* the nomination k is included in the log of the month of the store d
InLogOf(d, k) ==
  d[LogPage].exists /\ \E i \in 1..Len(d[LogPage].text) :
                           d[LogPage].text[i] = [t |-> "incl", title |-> k]

\* the nomination k is included in one of the two candidate lists of d
OnListOf(d, k) ==
  \E l \in {FpcListPage, DelistPage} :
    \E i \in 1..Len(d[l].text) : d[l].text[i] = [t |-> "incl", title |-> k]

\* parked: taken off the candidate list and added to the log
ParkedIn(d, k) == InLogOf(d, k) /\ ~OnListOf(d, k)

\* C26: no step of the bot takes a result annotation off a nomination page,
\* and a nomination that is parked (off the candidate list, in the log) stays
\* off the list and in the log
C26_NoReversal ==
  [][\A k \in NomKeys :
       /\ Annotations(docs'[k].text) >= Annotations(docs[k].text)
       /\ ParkedIn(docs, k) => ParkedIn(docs', k)]_vars

(***************************************************************************)
(* The annotation of a nomination with several images                      *)
(***************************************************************************)
\* the last item of the nomination page: the annotation closePage appended
LastAnnotation == Last(FlatText(docs[inp.key].text))

\* C27: closing a nomination with several images, for promotion or for
\* delisting, appends an annotation without tallies and leaves the heading
\* as it was; closing a single-image nomination appends the counted tallies
\* and the outcome of isPassed
C27_ManualReviewWhenSeveralImages ==
  (ret.op = "closePage" /\ inp.key \in ret.wrote /\ inp.marker = "none") =>
    IF inp.multi
    THEN /\ LastAnnotation.t = "counted" /\ LastAnnotation.manual
         /\ DOMAIN LastAnnotation \cap {"pro", "con", "neu"} = {}
         /\ docs[inp.key].text[1] = ret.before[inp.key].text[1]
    ELSE /\ LastAnnotation.t = "counted" /\ ~LastAnnotation.manual
         /\ LastAnnotation.pro = inp.pro /\ LastAnnotation.con = inp.con
         /\ <<LastAnnotation.pro, LastAnnotation.con, LastAnnotation.neu>>
              = <<obj.pro, obj.con, obj.neu>>
         /\ (LastAnnotation.featured = "yes") = isPassed([obj EXCEPT !.docs = docs])

(***************************************************************************)
(* SpecHeader: fixHeader applied again and again to a nomination page      *)
(* whose heading stands on the first line or below it                      *)
(***************************************************************************)
\* what stands above the heading: nothing, an empty line, a comment line
HeadLeads == { <<>>, << <<>> >>, << <<[t |-> "co"], [t |-> "cc"]>> >> }

InitHeader ==
  \E kind \in Kinds, lead \in HeadLeads, value \in {"yes", "no", ""},
     pro \in {0, PassQuorum} :
   \E suf \in {<<>>, <<ProString([kind |-> kind])>>, <<ConString([kind |-> kind])>>} :
    LET key == TitleOf(FileOf(PlainName)) IN
    /\ inp = [key |-> key, kind |-> kind, lead |-> lead, value |-> value, suf |-> suf]
    /\ docs = (key :> Doc(lead \o [NomText(FileOf(PlainName), kind, pro, 0, <<>>)
                                     EXCEPT ![1][1].suf = suf]))
    /\ docs0 = docs
    /\ G_Dry = FALSE /\ G_Auto = TRUE
    /\ daysOld = DoneDays /\ sinceEdit = 1
    /\ obj = NewCandidate(<<>>, FALSE, TRUE, <<>>, key, kind)
    /\ pc = "idle" /\ puts = 0 /\ ret = [op |-> "none"]
    /\ calls = [fixHeader |-> 0]
    /\ snap = <<>> /\ crashes = 0 /\ NoBatch

\* what a fixHeader call that returned new_text leaves: the page is saved
\* when the text has changed, fpc.py 755-757
HeaderFixed(m, new_text) ==
  /\ docs' = IF new_text # PageText(m) THEN commit(m, new_text, m.key).docs ELSE docs
  /\ ret' = [op |-> "fixHeader", n |-> calls.fixHeader + 1,
             before |-> PageText(m), after |-> new_text]

\* new_text = self.fixHeader(text, value), on a new Candidate
FixHeaderCall ==
  /\ calls.fixHeader < MaxCalls
  /\ LET m == NewCandidate(docs, G_Dry, G_Auto, <<>>, inp.key, inp.kind)
     IN HeaderFixed(m, fixHeader(m, PageText(m), inp.value))
  /\ calls' = [calls EXCEPT !.fixHeader = @ + 1]
  /\ UNCHANGED <<G_Dry, G_Auto, G_Threads, G_Abort, run, daysOld, sinceEdit, obj, pc, puts,
                 inp, docs0, snap, crashes>>

NextHeader == FixHeaderCall

SpecHeader == InitHeader /\ [][NextHeader]_vars

\* the statuses appended to the heading of the nomination text
HeadingSuffixes(text) == text[FirstHeading(text)[1]][FirstHeading(text)[2]].suf

\* C28: fixHeader appends the status to the heading only if the heading does
\* not end with a status already, wherever the heading stands in the text:
\* applied to its own result it changes nothing, and the heading never
\* carries more than one status
C28_FixHeaderIdempotent ==
  ret.op = "fixHeader" =>
    /\ HeadingSuffixes(ret.before) # <<>> => ret.after = ret.before
    /\ ret.n >= 2 => ret.after = ret.before
    /\ Len(HeadingSuffixes(docs[inp.key].text)) <= 1

(***************************************************************************)
(* Delisting: the removal step run again after an interruption             *)
(***************************************************************************)
\* the entries of the delisted file on the page k
DelistEntries(k) ==
  SelectSeq(docs[k].text, LAMBDA l : l.t \in {"entry", "link"} /\ l.fn = FileOf(inp.name))

\* C29: removeFromFeaturedLists keeps the entry of the chronological archive
\* and annotates it, removes the entry of the category page, and run a second
\* time it leaves both pages as the first run left them: the archive entry
\* carries the Delisted annotation exactly once (stated for a file name
\* without regex metacharacters, which wikipattern renders faithfully)
C29_DelistRemovalIdempotent ==
  (ret.op = "d1" /\ inp.name = PlainName) =>
    /\ DelistEntries(CatPage(Category)) = <<>>
    /\ Len(DelistEntries(MonthPage)) = 1
    /\ DelistEntries(MonthPage)[1].delisted = 1
    /\ ret.n >= 2 => /\ docs[MonthPage] = snap["d1"]
                     /\ docs[CatPage(Category)] = ret.before[CatPage(Category)]

(***************************************************************************)
(* A withdrawn or FPX-flagged nomination with several images               *)
(***************************************************************************)
\* the nomination is included in the log and no longer in its candidate list
MovedToLog ==
  /\ InLogOf(docs, inp.key)
  /\ \A i \in 1..Len(docs[ListPageName([kind |-> inp.kind])].text) :
       docs[ListPageName([kind |-> inp.kind])].text[i] # [t |-> "incl", title |-> inp.key]

\* C30 as stated: closePage moves a withdrawn or FPX-flagged nomination with
\* several images to the log once a full day has passed since its last edit,
\* whatever its age, and appends no result annotation
C30_FlaggedSeveralImagesMoved ==
  (ret.op = "closePage" /\ inp.flag # "none" /\ inp.multi /\ obj.sinceEdit >= 1) =>
    /\ MovedToLog
    /\ docs[inp.key] = docs0[inp.key]

\* C30: closePage never moves a withdrawn or FPX-flagged nomination with
\* several images to the log: it writes nothing before the nomination is
\* nine days old, however long ago the last edit was, and from then on it
\* appends a result annotation to the page unless the page carries a marker
C30_FlaggedSeveralImagesWaitNineDays ==
  (ret.op = "closePage" /\ inp.flag # "none" /\ inp.multi) =>
    /\ ret.wrote \subseteq {inp.key}
    /\ ~MovedToLog /\ docs[LogPage] = docs0[LogPage]
    /\ obj.daysOld < DoneDays => ret.wrote = {} /\ docs = ret.before
    /\ (obj.daysOld >= DoneDays /\ ~Marked(ret.before[inp.key].text, inp.kind)) =>
          /\ ret.wrote = {inp.key}
          /\ Annotations(docs[inp.key].text) = Annotations(ret.before[inp.key].text) + 1

\* a withdrawn nomination with two images was left alone at eight days, a
\* day and more after its last edit, and annotated at nine
C30_Witness ==
  /\ ret.op = "closePage" /\ ret.n >= 2
  /\ inp.flag = "withdraw" /\ inp.multi /\ inp.marker = "none"
  /\ obj.daysOld = DoneDays /\ daysOld = DoneDays
  /\ ret.wrote = {inp.key}
  /\ Annotations(docs[inp.key].text) = 1
  /\ ~docs[LogPage].exists

(***************************************************************************)
(* SpecList: addToFeaturedList on a list page of two sections whose        *)
(* galleries hold from no entry to more than the window                    *)
(***************************************************************************)
\* the i-th entry of the gallery of a section: File:oo..o.jpg
GalleryEntry(letter, i) == [t |-> "entry", fn |-> FileOf([j \in 1..i |-> letter]), cap |-> <<>>]

\* a section of the list page: heading, <gallery>, n entries, </gallery>
ListSection(cat, letter, n) ==
  <<[t |-> "sec", cat |-> cat], [t |-> "gopen"]>>
  \o [i \in 1..n |-> GalleryEntry(letter, i)]
  \o <<[t |-> "gclose"]>>

InitList ==
  \E na \in 0..MaxGallery, np \in 0..MaxGallery,
     category \in {"Animals", "Plants", "Objects"}, name \in {PlainName, PlusName} :
    LET key == TitleOf(FileOf(name)) IN
    /\ inp = [key |-> key, kind |-> "fpc", name |-> name, category |-> category,
              na |-> na, np |-> np]
    /\ docs = (key :> Doc(NomText(FileOf(name), "fpc", PassQuorum, 0, <<>>)))
              @@ (FileOf(name) :> Doc(ImageText("none")))
              @@ (ListPage :> Doc(ListSection("Animals", "o", na)
                                  \o ListSection("Plants", "p", np)))
    /\ docs0 = docs
    /\ G_Dry = FALSE /\ G_Auto = TRUE
    /\ daysOld = DoneDays /\ sinceEdit = 1
    /\ obj = NewCandidate(<<>>, FALSE, TRUE, <<>>, key, "fpc")
    /\ pc = "idle" /\ puts = 0 /\ ret = [op |-> "none"]
    /\ calls = [addToFeaturedList |-> 0]
    /\ snap = <<>> /\ crashes = 0 /\ NoBatch

\* what a call of addToFeaturedList has left: m2 is the candidate after it
ListedBy(m2) ==
  /\ docs' = m2.docs
  /\ puts' = puts + m2.puts
  /\ ret' = [op |-> "addToFeaturedList", n |-> calls.addToFeaturedList + 1,
             before |-> docs[ListPage].text, wrote |-> m2.wrote, halt |-> m2.halt]

\* self.addToFeaturedList(category) on a new Candidate, in auto mode
AddToFeaturedListCall ==
  /\ calls.addToFeaturedList < MaxCalls
  /\ ListedBy(addToFeaturedList(NewCandidate(docs, G_Dry, G_Auto, <<>>, inp.key, inp.kind),
                                inp.category))
  /\ calls' = [calls EXCEPT !.addToFeaturedList = @ + 1]
  /\ UNCHANGED <<G_Dry, G_Auto, G_Threads, G_Abort, run, daysOld, sinceEdit, obj, pc,
                 inp, docs0, snap, crashes>>

NextList == AddToFeaturedListCall

SpecList == InitList /\ [][NextList]_vars

RECURSIVE SectionLines(_, _, _)
\* the lines of the section cat of a list page text, from line i on: from
\* its heading to the next </gallery>
SectionLines(text, cat, i) ==
  IF i > Len(text) THEN <<>>
  ELSE IF text[i].t = "sec" /\ text[i].cat = cat
       THEN LET ends == {j \in i + 1..Len(text) : text[j].t = "gclose"}
            IN IF ends = {} THEN SubSeq(text, i, Len(text))
               ELSE SubSeq(text, i, CHOOSE j \in ends : \A k \in ends : j <= k)
       ELSE SectionLines(text, cat, i + 1)

\* the entries of the gallery of the section cat
SectionOf(text, cat) == SelectSeq(SectionLines(text, cat, 1), LAMBDA l : l.t = "entry")

\* the section of the list page that is not the one of the category given
OtherSection == IF inp.category = "Animals" THEN "Plants" ELSE "Animals"

\* C31: addToFeaturedList in auto mode, for a file not yet on the list page
\* and a category that has a section: afterwards the file is the first entry
\* of the section, the former last entry is gone, the others keep their
\* order, the section holds at most four entries and the other section is
\* as it was
C31_FeaturedListWindow ==
  (/\ ret.op = "addToFeaturedList" /\ ret.n = 1
   /\ inp.category \in {"Animals", "Plants"}) =>
    LET old == SectionOf(ret.before, inp.category)
        new == SectionOf(docs[ListPage].text, inp.category)
    IN /\ new # <<>> /\ new[1].fn = FileOf(inp.name)
       /\ Len(new) <= ListWindow
       /\ old # <<>> => Tail(new) = SubSeq(old, 1, Len(old) - 1)
       /\ SectionLines(docs[ListPage].text, OtherSection, 1)
            = SectionLines(ret.before, OtherSection, 1)

(***************************************************************************)
(* SpecFault: park step by step, as in SpecPark, on a store where one page *)
(* a step reads is missing or one page a step writes is locked             *)
(***************************************************************************)
\* the pages of the steps, for the nomination of File:a.jpg
StepPages(kind) ==
  {ListPage, CatPage(Category), FileOf(PlainName), MonthPage, TalkPage(Nominator),
   LogPage, ListPageName([kind |-> kind])}

\* no fault
NoFault == [missing |-> {}, locked |-> {}, odd |-> "none"]

\* the faults drawn: none, a missing page, a locked page, a featured list
\* without a section for the category of the candidate
Faults(kind) ==
  {NoFault}
  \cup {[NoFault EXCEPT !.missing = {k}] :
          k \in {ListPage, CatPage(Category), MonthPage, TalkPage(Nominator)}}
  \cup {[NoFault EXCEPT !.locked = {k}] : k \in StepPages(kind)}
  \cup {[NoFault EXCEPT !.odd = "nosection"]}

\* the store of a fault draw: the store of park with the missing pages
\* taken out, for alt = "unset" no alternative in the verified result, and
\* for odd = "nosection" a featured list that has the section Plants only
FaultStore(i, missing) ==
  LET d   == ParkStore(i)
      txt == d[i.key].text
  IN [k \in DOMAIN d |->
        IF k \in missing THEN NoDoc
        ELSE IF k = ListPage /\ i.odd = "nosection"
             THEN Doc(<<[t |-> "sec", cat |-> "Plants"], [t |-> "gopen"], [t |-> "gclose"]>>)
        ELSE IF k = i.key /\ i.alt = "unset"
             THEN Doc([txt EXCEPT ![Len(txt)][1].alternative = <<>>])
             ELSE d[k]]

InitFault ==
  \E kind \in Kinds, featured \in {"yes", "no", "maybe"}, ass \in {"none", "featured"},
     alt \in {"single", "set", "unset", "missing"} :
   \E fault \in Faults(kind) :
    LET i == [name |-> PlainName, kind |-> kind, verified |-> "one",
              featured |-> featured, multi |-> alt # "single", ass |-> ass,
              flag |-> "none", key |-> TitleOf(FileOf(PlainName)), alt |-> alt,
              odd |-> fault.odd]
        missing == fault.missing \cup (IF alt = "missing" THEN {FileOf(AltName)} ELSE {})
    IN
    /\ kind = "delist" => alt = "single"
    /\ (alt # "single" \/ featured = "maybe") => fault = NoFault
    /\ inp = i @@ [missing |-> missing, locked |-> fault.locked]
    /\ docs = FaultStore(i, missing)
    /\ docs0 = docs
    /\ G_Dry = FALSE /\ G_Auto = TRUE
    /\ daysOld = 0 /\ sinceEdit = 0
    /\ obj = NewCandidate(<<>>, FALSE, TRUE, <<>>, inp.key, inp.kind)
    /\ pc = "idle" /\ puts = 0 /\ ret = [op |-> "none"]
    /\ calls = [o \in ParkSteps \cup {"park", "restart"} |-> 0]
    /\ snap = [o \in ParkSteps |-> NoDoc]
    /\ crashes = 0 /\ NoBatch

SpecFault == InitFault /\ [][NextPark]_vars

\* the steps of a passed promotion candidate, in the order of
\* handlePassedCandidate
PassedSteps == <<"s1", "s2", "s3", "s4", "s5", "s6a", "s6b">>

\* C32: for a passed promotion candidate the steps run in the order featured
\* list, category listing, assessments, current month, notification, log,
\* active listing; the nomination leaves the active listing only when every
\* earlier step has run and the log includes it; and when a step has failed
\* on a missing or locked page the nomination is still in the active listing
C32_ListingRemovedLast ==
  (inp.kind = "fpc" /\ inp.featured = "yes") =>
    /\ \A k \in 1..Len(PassedSteps) - 1 : calls[PassedSteps[k + 1]] <= calls[PassedSteps[k]]
    /\ Included(FpcListPage) = 0 =>
         /\ \A k \in 1..Len(PassedSteps) : calls[PassedSteps[k]] >= 1
         /\ Included(LogPage) >= 1
         /\ ret.op = "s6b" /\ pc = "done"
    /\ pc = "failed" => Included(FpcListPage) = 1
    /\ (ret.op = "park" /\ calls["restart"] >= 1) => Included(FpcListPage) = 1

\* the month page is missing: the first three steps wrote, the fourth
\* failed, and the next run has found the nomination on the active listing
C32_Witness ==
  /\ inp.kind = "fpc" /\ inp.featured = "yes" /\ inp.missing = {MonthPage}
  /\ calls["restart"] >= 1 /\ ret.op = "s4" /\ ret.n >= 2 /\ pc = "failed"
  /\ Listed(ListPage, FileOf(PlainName)) = 1
  /\ Listed(CatPage(Category), FileOf(PlainName)) = 1
  /\ Included(FpcListPage) = 1 /\ ~docs[LogPage].exists

(***************************************************************************)
(* park of a candidate that did not pass                                   *)
(***************************************************************************)
\* the documents of the publication steps
PublicationPages ==
  {ListPage, CatPage(Category), FileOf(inp.name), FileOf(AltName), MonthPage,
   TalkPage(Nominator)}

\* C33: park of a candidate whose one verified result has the outcome no
\* leaves the featured list, the category listing, the image pages, the
\* listing of the month and the talk page of the nominator as they were, and
\* runs none of the publication steps; it writes the nomination page, the
\* log and the active listing only
C33_FailedCandidateOnlyLogged ==
  (inp.verified = "one" /\ inp.featured = "no") =>
    /\ \A k \in PublicationPages : docs[k] = docs0[k]
    /\ \A st \in {"s1", "s2", "s3", "s4", "s5", "d1", "d2"} : calls[st] = 0
    /\ \A k \in DOMAIN docs :
         docs[k] # docs0[k] => k \in {inp.key, LogPage, ListPageName([kind |-> inp.kind])}

\* a promotion candidate that did not pass has been parked: heading fixed,
\* included in the log, taken off the active listing
C33_Witness ==
  /\ inp.verified = "one" /\ inp.featured = "no" /\ inp.kind = "fpc"
  /\ inp.flag = "none" /\ ret.op = "s6b" /\ pc = "done"
  /\ docs[inp.key] # docs0[inp.key]
  /\ Included(LogPage) = 1 /\ Included(FpcListPage) = 0

(***************************************************************************)
(* What has been published when a passed candidate is parked               *)
(***************************************************************************)
\* the image page of the promoted file carries featured=1
Assessed ==
  \E i \in 1..Len(docs[Promoted].text) :
    /\ docs[Promoted].text[i].t = "ass"
    /\ \E j \in 1..Len(docs[Promoted].text[i].params) :
         docs[Promoted].text[i].params[j] = [k |-> "featured", v |-> <<"1">>]

\* C34: when park in auto mode has moved a passed promotion candidate to the
\* log and taken it off the active listing, the featured list, the category
\* listing and the listing of the month each hold the file and its image
\* page carries the featured assessment
C34_ParkedMeansPublished ==
  (/\ inp.kind = "fpc" /\ inp.verified = "one" /\ inp.featured = "yes"
   /\ ret.op = "s6b" /\ pc = "done"
   /\ Included(LogPage) >= 1 /\ Included(FpcListPage) = 0) =>
    /\ Listed(ListPage, Promoted) >= 1
    /\ Listed(CatPage(Category), Promoted) >= 1
    /\ Listed(MonthPage, Promoted) >= 1
    /\ Assessed

(***************************************************************************)
(* A verified result whose outcome is neither yes nor no                   *)
(***************************************************************************)
\* C35: park writes no document, the heading of the nomination page
\* included, when the one verified result has an outcome other than yes or
\* no
C35_UnknownOutcomeIgnored ==
  inp.featured = "maybe" => docs = docs0 /\ puts = 0

(***************************************************************************)
(* A passed candidate with several images and no usable alternative        *)
(***************************************************************************)
\* C36: for a passed promotion candidate with several images whose verified
\* result names no alternative, or names one whose page does not exist,
\* park writes none of the featured list, the category listing, the image
\* page, the listing of the month, the talk page, the log and the active
\* listing
C36_NoAlternativeNoPublication ==
  (inp.kind = "fpc" /\ inp.featured = "yes" /\ inp.alt \in {"unset", "missing"}) =>
    \A k \in DOMAIN docs \ {inp.key} : docs[k] = docs0[k]

=============================================================================
